---- MODULE Spec2Model ----
(***************************************************************************)
(* Brush clipping and compaction of poetahto/pt.                           *)
(*                                                                         *)
(* Three clippers of the repository are modelled side by side:             *)
(*   "ptc"  ptc_clip                       src/ptb_map.h                   *)
(*   "tb"   clip_geometry/tb_geometry_create  src/unnamed/part_002         *)
(*   "poe"  Clip/CreateGeometry            src/unnamed/part_001            *)
(*                                                                         *)
(* Reals (float) are exact rationals <<numerator, denominator>> in lowest  *)
(* terms with a positive denominator; <<0, 0>> stands for a non-finite     *)
(* float (the result of a division by zero).  Array indices are the        *)
(* 0-based indices of the source; sequences are 1-based, so element i of   *)
(* an array a is a[i + 1].                                                 *)
(***************************************************************************)
EXTENDS Integers, Sequences, FiniteSets, TLC

VARIABLES impl, heap, mesh, pre, applied, results, out, model

vars == <<impl, heap, mesh, pre, applied, results, out, model>>

(***************************************************************************)
(* float arithmetic                                                        *)
(***************************************************************************)
Abs(x) == IF x < 0 THEN -x ELSE x

RECURSIVE Gcd(_, _)
Gcd(a, b) == IF b = 0 THEN a ELSE Gcd(b, a % b)

NaN == <<0, 0>>

IsFinite(r) == r[2] # 0

Rat(n, d) ==
  IF d = 0 THEN NaN
  ELSE LET g == Gcd(Abs(n), Abs(d))
           s == IF d < 0 THEN -1 ELSE 1
       IN  <<(s * n) \div g, (s * d) \div g>>

R(n) == <<n, 1>>

RNeg(a) == IF IsFinite(a) THEN <<-a[1], a[2]>> ELSE NaN

\* the sum is formed from the integer and fractional parts of the operands
\* to keep the intermediate products small
RAdd(a, b) ==
  IF ~IsFinite(a) \/ ~IsFinite(b) THEN NaN
  ELSE LET g  == Gcd(a[2], b[2])
           d  == (a[2] \div g) * b[2]
           fr == Rat((a[1] % a[2]) * (b[2] \div g) + (b[1] % b[2]) * (a[2] \div g), d)
       IN  <<((a[1] \div a[2]) + (b[1] \div b[2])) * fr[2] + fr[1], fr[2]>>

RSub(a, b) == RAdd(a, RNeg(b))

RMul(a, b) ==
  IF ~IsFinite(a) \/ ~IsFinite(b) THEN NaN
  ELSE IF a[1] = 0 \/ b[1] = 0 THEN <<0, 1>>
  ELSE LET g1 == Gcd(Abs(a[1]), b[2])
           g2 == Gcd(Abs(b[1]), a[2])
       IN  <<(a[1] \div g1) * (b[1] \div g2), (a[2] \div g2) * (b[2] \div g1)>>

RDiv(a, b) ==
  IF ~IsFinite(a) \/ ~IsFinite(b) \/ b[1] = 0 THEN NaN
  ELSE RMul(a, IF b[1] < 0 THEN <<-b[2], -b[1]>> ELSE <<b[2], b[1]>>)

\* a >= b and a < b on floats; every comparison with a non-finite
\* operand is false
RGeq(a, b) == IsFinite(a) /\ IsFinite(b) /\ RSub(a, b)[1] >= 0

RLt(a, b) == IsFinite(a) /\ IsFinite(b) /\ RSub(a, b)[1] < 0

Vec3(x, y, z) == <<R(x), R(y), R(z)>>

(***************************************************************************)
(* src/ptb_map.h : pt_clip                                                 *)
(***************************************************************************)
\* const PTC_REAL EPSILON = 0.01f
EPSILON == <<1, 100>>

ptc__dot_product(a, b) ==
  RAdd(RAdd(RMul(a[1], b[1]), RMul(a[2], b[2])), RMul(a[3], b[3]))

ptc__lerp(from, to, t) ==
  LET invt == RSub(R(1), t)
  IN  <<RAdd(RMul(invt, from[1]), RMul(t, to[1])),
        RAdd(RMul(invt, from[2]), RMul(t, to[2])),
        RAdd(RMul(invt, from[3]), RMul(t, to[3]))>>

ptc__plane_distance(plane, position) ==
  RSub(ptc__dot_product(plane.normal, position), plane.c)

\* Previous contents of the storage slot `slot` of the caller's vertex and
\* edge buffers: the bytes ptc__add_vertex and ptc__add_edge leave as they
\* were (distance, is_clipped, occurs of a vertex; is_clipped of an edge).
\* A "zeroed" heap holds 0x00 bytes, a "filled" heap 0xFF bytes (a true
\* flag, a NaN float, the int -1), a "mixed" heap alternates slot by slot.
StaleFlag(h, slot) ==
  CASE h = "zeroed" -> FALSE
    [] h = "filled" -> TRUE
    [] OTHER        -> slot % 2 = 1

StaleDistance(h, slot) == IF StaleFlag(h, slot) THEN NaN ELSE <<0, 1>>

StaleOccurs(h, slot) == IF StaleFlag(h, slot) THEN -1 ELSE 0

\* ptc__add_face_edge without the append to the face's own list
ptc__add_face_edgeUnlisted(m, face, edge) ==
  IF face = -1 THEN m
  ELSE LET e == m.edges[edge + 1]
       IN  IF e.faces[1] = -1 THEN [m EXCEPT !.edges[edge + 1].faces[1] = face]
           ELSE IF e.faces[2] = -1 THEN [m EXCEPT !.edges[edge + 1].faces[2] = face]
           ELSE [m EXCEPT !.aborted = TRUE]

ptc__add_face_edge(m, face, edge) ==
  IF face = -1 THEN m
  ELSE LET e  == m.edges[edge + 1]
           m1 == [m EXCEPT !.faces[face + 1].edges = Append(@, edge)]
       IN  IF e.faces[1] = -1 THEN [m1 EXCEPT !.edges[edge + 1].faces[1] = face]
           ELSE IF e.faces[2] = -1 THEN [m1 EXCEPT !.edges[edge + 1].faces[2] = face]
           ELSE [m1 EXCEPT !.aborted = TRUE]

\* index (1-based) of the first occurrence of x in s, 0 when absent
RECURSIVE FirstIndex(_, _, _)
FirstIndex(s, x, k) ==
  IF k > Len(s) THEN 0 ELSE IF s[k] = x THEN k ELSE FirstIndex(s, x, k + 1)

ptc__remove_face_edge(m, face, edge) ==
  IF face = -1 THEN m
  ELSE LET f    == m.faces[face + 1]
           last == Len(f.edges)
       IN  IF last = 0 THEN [m EXCEPT !.overrun = TRUE]
           ELSE LET i       == FirstIndex(f.edges, edge, 1)
                    swapped == IF f.edges[last] # edge /\ i # 0
                                 THEN [f.edges EXCEPT ![i] = f.edges[last]]
                                 ELSE f.edges
                    edges   == SubSeq(swapped, 1, last - 1)
                IN  [m EXCEPT !.faces[face + 1].edges = edges,
                              !.faces[face + 1].is_clipped = (@ \/ Len(edges) <= 0)]

ptc__add_vertex(m, position) ==
  LET count    == Len(m.vertices) + 1
      capacity == m.vertex_capacity
      grow     == capacity < count + 1
      alloc    == IF grow THEN capacity ELSE m.vertex_alloc
      vertex   == [position   |-> position,
                   distance   |-> StaleDistance(heap, count - 1),
                   is_clipped |-> StaleFlag(heap, count - 1),
                   occurs     |-> StaleOccurs(heap, count - 1)]
  IN  [m EXCEPT !.vertices = Append(@, vertex),
                !.vertex_capacity = IF grow THEN (IF capacity = 0 THEN 10 ELSE capacity * 2) ELSE @,
                !.vertex_alloc = alloc,
                !.overrun = (@ \/ count > alloc)]

ptc__add_edge(m, v0, v1) ==
  LET count    == Len(m.edges) + 1
      capacity == m.edge_capacity
      grow     == capacity < count + 1
      alloc    == IF grow THEN capacity ELSE m.edge_alloc
      edge     == [vertices   |-> <<v0, v1>>,
                   faces      |-> <<-1, -1>>,
                   is_clipped |-> StaleFlag(heap, count - 1)]
  IN  [m EXCEPT !.edges = Append(@, edge),
                !.edge_capacity = IF grow THEN (IF capacity = 0 THEN 10 ELSE capacity * 2) ELSE @,
                !.edge_alloc = alloc,
                !.overrun = (@ \/ count > alloc)]

ptc__add_face(m, normal, userdata) ==
  LET count    == Len(m.faces) + 1
      capacity == m.face_capacity
      grow     == capacity < count + 1
      alloc    == IF grow THEN capacity ELSE m.face_alloc
      face     == [edges |-> <<>>, normal |-> normal, userdata |-> userdata,
                   is_clipped |-> FALSE]
  IN  [m EXCEPT !.faces = Append(@, face),
                !.face_capacity = IF grow THEN (IF capacity = 0 THEN 10 ELSE capacity * 2) ELSE @,
                !.face_alloc = alloc,
                !.overrun = (@ \/ count > alloc)]

ptc__init_face(e0, e1, e2, e3, n0, n1, n2) ==
  [edges |-> <<e0, e1, e2, e3>>, normal |-> Vec3(n0, n1, n2), userdata |-> 0,
   is_clipped |-> FALSE]

ptc__init_vertex(x, y, z) ==
  [position |-> <<x, y, z>>, distance |-> R(0), is_clipped |-> FALSE, occurs |-> 0]

\* an edge wired to one face only
ptc__init_edgeOneFace(v0, v1, f0, f1) ==
  [vertices |-> <<v0, v1>>, faces |-> <<f0, f0>>, is_clipped |-> FALSE]

ptc__init_edge(v0, v1, f0, f1) ==
  [vertices |-> <<v0, v1>>, faces |-> <<f0, f1>>, is_clipped |-> FALSE]

ptc_init_bounds(m, min, max) ==
  [m EXCEPT
    !.vertices = <<ptc__init_vertex(min[1], min[2], min[3]),
                   ptc__init_vertex(min[1], max[2], min[3]),
                   ptc__init_vertex(max[1], max[2], min[3]),
                   ptc__init_vertex(max[1], min[2], min[3]),
                   ptc__init_vertex(min[1], min[2], max[3]),
                   ptc__init_vertex(min[1], max[2], max[3]),
                   ptc__init_vertex(max[1], max[2], max[3]),
                   ptc__init_vertex(max[1], min[2], max[3])>>,
    !.edges = <<ptc__init_edge(0, 3, 0, 5), ptc__init_edge(1, 2, 0, 4),
                ptc__init_edge(0, 1, 0, 2), ptc__init_edge(2, 3, 0, 3),
                ptc__init_edge(4, 7, 1, 5), ptc__init_edge(5, 6, 1, 4),
                ptc__init_edge(4, 5, 1, 2), ptc__init_edge(6, 7, 1, 3),
                ptc__init_edge(0, 4, 5, 2), ptc__init_edge(1, 5, 4, 2),
                ptc__init_edge(3, 7, 5, 3), ptc__init_edge(2, 6, 4, 3)>>,
    !.faces = <<ptc__init_face(0, 1, 2, 3, 0, 0, -1),
                ptc__init_face(4, 5, 6, 7, 0, 0, 1),
                ptc__init_face(2, 6, 8, 9, -1, 0, 0),
                ptc__init_face(3, 7, 10, 11, 1, 0, 0),
                ptc__init_face(1, 5, 9, 11, 0, 1, 0),
                ptc__init_face(0, 4, 8, 10, 0, -1, 0)>>]

\* step one that sets the flag of every vertex from this plane alone
ptc__classifyAfresh(vertex, plane) ==
  LET distance == ptc__plane_distance(plane, vertex.position)
  IN  [vertex EXCEPT !.distance = distance, !.is_clipped = RGeq(distance, EPSILON)]

\* step one that compares with 0: a vertex on the plane is clipped
ptc__classifyNoBand(vertex, plane) ==
  IF vertex.is_clipped THEN vertex
  ELSE LET distance == ptc__plane_distance(plane, vertex.position)
       IN  IF RGeq(distance, R(0))
             THEN [vertex EXCEPT !.distance = distance, !.is_clipped = TRUE]
           ELSE [vertex EXCEPT !.distance = distance]

\* step one with the snap band on the clipped side: d >= -EPSILON clips
ptc__classifyBandClips(vertex, plane) ==
  IF vertex.is_clipped THEN vertex
  ELSE LET distance == ptc__plane_distance(plane, vertex.position)
       IN  IF RGeq(distance, RNeg(EPSILON))
             THEN [vertex EXCEPT !.distance = distance, !.is_clipped = TRUE]
           ELSE [vertex EXCEPT !.distance = distance]

\* step one of ptc_clip
ptc__classify(vertex, plane) ==
  IF vertex.is_clipped THEN vertex
  ELSE LET distance == ptc__plane_distance(plane, vertex.position)
       IN  IF RGeq(distance, EPSILON)
             THEN [vertex EXCEPT !.distance = distance, !.is_clipped = TRUE]
           ELSE IF RGeq(distance, RNeg(EPSILON))
             THEN [vertex EXCEPT !.distance = R(0)]
           ELSE [vertex EXCEPT !.distance = distance]

ptc__step_one(m, plane) ==
  [m EXCEPT !.vertices = [i \in 1..Len(@) |-> ptc__classify(@[i], plane)]]

\* count_total and count_clipped of a call that took m to m1 in step one
\* (flags, flags1: the vertices' clipped flags before and after step one)
CountTotal(flags) == Cardinality({i \in 1..Len(flags) : ~flags[i]})

CountClipped(flags, flags1) ==
  Cardinality({i \in 1..Len(flags) : ~flags[i] /\ flags1[i]})

\* which of the three ways a call went, from its two counters
ClipResult(flags, flags1) ==
  IF CountClipped(flags, flags1) = 0 THEN "RESULT_NO_CLIPPING"
  ELSE IF CountClipped(flags, flags1) = CountTotal(flags) THEN "RESULT_TOTAL_CLIPPING"
  ELSE "RESULT_PARTIAL_CLIPPING"

ptc__is_clipped(vs) == [i \in 1..Len(vs) |-> vs[i].is_clipped]

\* step two that replaces the endpoint that was kept
RECURSIVE ptc__step_twoKeptSlot(_, _)
ptc__step_twoKeptSlot(m, edge_idx) ==
  IF edge_idx >= Len(m.edges) THEN m
  ELSE LET edge == m.edges[edge_idx + 1]
           v0   == m.vertices[edge.vertices[1] + 1]
           v1   == m.vertices[edge.vertices[2] + 1]
       IN  IF edge.is_clipped THEN ptc__step_twoKeptSlot(m, edge_idx + 1)
           ELSE IF v0.is_clipped /\ v1.is_clipped THEN
             ptc__step_twoKeptSlot(
               ptc__remove_face_edge(
                 ptc__remove_face_edge(
                   [m EXCEPT !.edges[edge_idx + 1].is_clipped = TRUE],
                   edge.faces[1], edge_idx),
                 edge.faces[2], edge_idx),
               edge_idx + 1)
           ELSE IF ~v0.is_clipped /\ ~v1.is_clipped THEN ptc__step_twoKeptSlot(m, edge_idx + 1)
           ELSE LET d0         == v0.distance
                    d1         == v1.distance
                    t          == RDiv(d0, RSub(d0, d1))
                    midpoint   == ptc__lerp(v0.position, v1.position, t)
                    new_vertex == Len(m.vertices)
                    m1         == ptc__add_vertex(m, midpoint)
                IN  ptc__step_twoKeptSlot(
                      [m1 EXCEPT !.edges[edge_idx + 1].vertices[IF v0.is_clipped THEN 2 ELSE 1] = new_vertex],
                      edge_idx + 1)

\* step two of ptc_clip
RECURSIVE ptc__step_two(_, _)
ptc__step_two(m, edge_idx) ==
  IF edge_idx >= Len(m.edges) THEN m
  ELSE LET edge == m.edges[edge_idx + 1]
           v0   == m.vertices[edge.vertices[1] + 1]
           v1   == m.vertices[edge.vertices[2] + 1]
       IN  IF edge.is_clipped THEN ptc__step_two(m, edge_idx + 1)
           ELSE IF v0.is_clipped /\ v1.is_clipped THEN
             ptc__step_two(
               ptc__remove_face_edge(
                 ptc__remove_face_edge(
                   [m EXCEPT !.edges[edge_idx + 1].is_clipped = TRUE],
                   edge.faces[1], edge_idx),
                 edge.faces[2], edge_idx),
               edge_idx + 1)
           ELSE IF ~v0.is_clipped /\ ~v1.is_clipped THEN ptc__step_two(m, edge_idx + 1)
           ELSE LET d0         == v0.distance
                    d1         == v1.distance
                    t          == RDiv(d0, RSub(d0, d1))
                    midpoint   == ptc__lerp(v0.position, v1.position, t)
                    new_vertex == Len(m.vertices)
                    m1         == ptc__add_vertex(m, midpoint)
                IN  ptc__step_two(
                      [m1 EXCEPT !.edges[edge_idx + 1].vertices[IF v0.is_clipped THEN 1 ELSE 2] = new_vertex],
                      edge_idx + 1)

\* the occurs counters of the vertices after the two counting loops of a face
\* (pairs: the vertex pairs of the face's edges, in list order)
Occurrences(pairs, v) ==
  Cardinality({ks \in (1..Len(pairs)) \X {1, 2} : pairs[ks[1]][ks[2]] = v})

ptc__vertices(edges, fe) == [k \in 1..Len(fe) |-> edges[fe[k] + 1].vertices]

ptc__count_occurs(m, face_idx) ==
  LET fe   == m.faces[face_idx + 1].edges
      used == {m.edges[fe[k] + 1].vertices[s] : k \in 1..Len(fe), s \in {1, 2}}
  IN  [m EXCEPT !.vertices =
         [i \in 1..Len(@) |->
            IF (i - 1) \in used
              THEN [@[i] EXCEPT !.occurs = Occurrences(ptc__vertices(m.edges, fe), i - 1)]
              ELSE @[i]]]

\* the endpoint scan of a face: endpoints[0..1], failed when PTC_ASSERT fires;
\* the mesh records in bad_scan that a scan found one endpoint or more than two
RECURSIVE ptc__scan(_, _, _, _)
ptc__scan(m, fe, k, endpoints) ==
  IF k > Len(fe) THEN [endpoints |-> endpoints, failed |-> FALSE]
  ELSE LET edge     == m.edges[fe[k] + 1]
           o0       == m.vertices[edge.vertices[1] + 1].occurs
           o1       == m.vertices[edge.vertices[2] + 1].occurs
           endpoint == IF o1 = 1 THEN edge.vertices[2]
                       ELSE IF o0 = 1 THEN edge.vertices[1] ELSE -1
       IN  IF endpoint = -1 THEN ptc__scan(m, fe, k + 1, endpoints)
           ELSE IF endpoints[1] = -1 THEN ptc__scan(m, fe, k + 1, <<endpoint, endpoints[2]>>)
           ELSE IF endpoints[2] = -1 THEN ptc__scan(m, fe, k + 1, <<endpoints[1], endpoint>>)
           ELSE [endpoints |-> endpoints, failed |-> TRUE]

\* step three of ptc_clip, from face face_idx on
RECURSIVE ptc__step_three(_, _, _)
ptc__step_three(m, new_face_idx, face_idx) ==
  IF m.aborted \/ face_idx >= Len(m.faces) THEN m
  ELSE IF m.faces[face_idx + 1].is_clipped THEN ptc__step_three(m, new_face_idx, face_idx + 1)
  ELSE LET m1   == ptc__count_occurs(m, face_idx)
           scan == ptc__scan(m1, m1.faces[face_idx + 1].edges, 1, <<-1, -1>>)
           edge == Len(m1.edges)
       IN  IF scan.failed THEN [m1 EXCEPT !.aborted = TRUE, !.bad_scan = TRUE]
           ELSE IF scan.endpoints[1] # -1 /\ scan.endpoints[2] = -1
             THEN ptc__step_three([m1 EXCEPT !.bad_scan = TRUE], new_face_idx, face_idx + 1)
           ELSE IF scan.endpoints[1] # -1 /\ scan.endpoints[2] # -1 THEN
             ptc__step_three(
               ptc__add_face_edge(
                 ptc__add_face_edge(
                   ptc__add_edge(m1, scan.endpoints[1], scan.endpoints[2]),
                   face_idx, edge),
                 new_face_idx, edge),
               new_face_idx, face_idx + 1)
           ELSE ptc__step_three(m1, new_face_idx, face_idx + 1)

ptc_clipBody(m, plane, userdata) ==
  LET m1            == ptc__step_one(m, plane)
      count_total   == CountTotal(ptc__is_clipped(m.vertices))
      count_clipped == CountClipped(ptc__is_clipped(m.vertices), ptc__is_clipped(m1.vertices))
  IN  IF count_clipped = 0 \/ count_clipped = count_total THEN m1
      ELSE LET m2 == ptc__step_two(m1, 0)
           IN  ptc__step_three(ptc__add_face(m2, plane.normal, userdata), Len(m2.faces), 0)

(***************************************************************************)
(* src/unnamed/part_002 : tb_geometry                                      *)
(* is_visible is kept as in the source; a face's info is the face_info of  *)
(* the brush plane that created it (all zero for the six seed faces).      *)
(***************************************************************************)
\* const float k_epsilon = 0.01f
k_epsilon == <<1, 100>>

vec3_dot_product(a, b) ==
  RAdd(RAdd(RMul(a[1], b[1]), RMul(a[2], b[2])), RMul(a[3], b[3]))

vec3_add(a, b) == <<RAdd(a[1], b[1]), RAdd(a[2], b[2]), RAdd(a[3], b[3])>>

vec3_subtract(a, b) == <<RSub(a[1], b[1]), RSub(a[2], b[2]), RSub(a[3], b[3])>>

lerp(a, b, t) == RAdd(RMul(RSub(R(1), t), a), RMul(t, b))

ZeroInfo ==
  [texture |-> 0, normal |-> Vec3(0, 0, 0), point |-> Vec3(0, 0, 0),
   tangent |-> Vec3(0, 0, 0),
   world_to_uv_matrix |-> <<Vec3(0, 0, 0), Vec3(0, 0, 0)>>,
   uv_scale |-> <<R(0), R(0)>>, uv_offset |-> <<R(0), R(0)>>]

create_face(edge_1, edge_2, edge_3, edge_4) ==
  [edge_indices |-> <<edge_1, edge_2, edge_3, edge_4>>, is_visible |-> TRUE,
   info |-> ZeroInfo]

clipping_vertex(x, y, z) ==
  [position |-> <<x, y, z>>, distance |-> R(0), occurs |-> 0, is_visible |-> TRUE]

\* an edge that is not marked visible
clipping_edgeHidden(v0, v1, f0, f1) ==
  [vertex_indices |-> <<v0, v1>>, face_indices |-> <<f0, f1>>, is_visible |-> FALSE]

clipping_edge(v0, v1, f0, f1) ==
  [vertex_indices |-> <<v0, v1>>, face_indices |-> <<f0, f1>>, is_visible |-> TRUE]

get_geometry_from_bounds(center, half_extents) ==
  LET min == vec3_subtract(center, half_extents)
      max == vec3_add(center, half_extents)
  IN  [vertices |-> <<clipping_vertex(min[1], min[2], min[3]),
                      clipping_vertex(min[1], max[2], min[3]),
                      clipping_vertex(max[1], max[2], min[3]),
                      clipping_vertex(max[1], min[2], min[3]),
                      clipping_vertex(min[1], min[2], max[3]),
                      clipping_vertex(min[1], max[2], max[3]),
                      clipping_vertex(max[1], max[2], max[3]),
                      clipping_vertex(max[1], min[2], max[3])>>,
       edges |-> <<clipping_edge(0, 3, 0, 5), clipping_edge(1, 2, 0, 4),
                   clipping_edge(0, 1, 0, 2), clipping_edge(2, 3, 0, 3),
                   clipping_edge(4, 7, 1, 5), clipping_edge(5, 6, 1, 4),
                   clipping_edge(4, 5, 1, 2), clipping_edge(6, 7, 1, 3),
                   clipping_edge(0, 4, 5, 2), clipping_edge(1, 5, 4, 2),
                   clipping_edge(3, 7, 5, 3), clipping_edge(2, 6, 4, 3)>>,
       faces |-> <<create_face(0, 1, 2, 3), create_face(4, 5, 6, 7),
                   create_face(2, 6, 8, 9), create_face(3, 7, 10, 11),
                   create_face(1, 5, 9, 11), create_face(0, 4, 8, 10)>>]

\* remove_from_list: the first occurrence goes, the order of the rest is kept
\* a removal that leaves the list as it is
remove_from_listKept(list, value) == list

remove_from_list(list, value) ==
  IF Len(list) = 0 THEN list
  ELSE IF list[Len(list)] = value THEN SubSeq(list, 1, Len(list) - 1)
  ELSE LET i == FirstIndex(SubSeq(list, 1, Len(list) - 1), value, 1)
       IN  IF i = 0 THEN list
           ELSE SubSeq(list, 1, i - 1) \o SubSeq(list, i + 1, Len(list))

\* step one of clip_geometry
tb__classify(vertex, info) ==
  IF ~vertex.is_visible THEN vertex
  ELSE LET c        == vec3_dot_product(info.normal, info.point)
           distance == RSub(vec3_dot_product(info.normal, vertex.position), c)
       IN  IF RGeq(distance, k_epsilon)
             THEN [vertex EXCEPT !.distance = distance, !.is_visible = FALSE]
           ELSE IF RGeq(distance, RNeg(k_epsilon))
             THEN [vertex EXCEPT !.distance = R(0)]
           ELSE [vertex EXCEPT !.distance = distance]

tb__step_one(g, info) ==
  [g EXCEPT !.vertices = [i \in 1..Len(@) |-> tb__classify(@[i], info)]]

tb__is_clipped(vs) == [i \in 1..Len(vs) |-> ~vs[i].is_visible]

\* the removal of a fully culled edge from one adjacent face
tb__cull_from(g, face, edge_index) ==
  LET edges == remove_from_list(g.faces[face + 1].edge_indices, edge_index)
  IN  [g EXCEPT !.faces[face + 1].edge_indices = edges,
                !.faces[face + 1].is_visible = (@ /\ Len(edges) # 0)]

\* step two of clip_geometry
RECURSIVE tb__step_two(_, _)
tb__step_two(g, edge_index) ==
  IF edge_index >= Len(g.edges) THEN g
  ELSE LET edge     == g.edges[edge_index + 1]
           vertex_1 == g.vertices[edge.vertex_indices[1] + 1]
           vertex_2 == g.vertices[edge.vertex_indices[2] + 1]
       IN  IF ~edge.is_visible THEN tb__step_two(g, edge_index + 1)
           ELSE IF ~vertex_1.is_visible /\ ~vertex_2.is_visible THEN
             tb__step_two(
               tb__cull_from(
                 tb__cull_from([g EXCEPT !.edges[edge_index + 1].is_visible = FALSE],
                               edge.face_indices[1], edge_index),
                 edge.face_indices[2], edge_index),
               edge_index + 1)
           ELSE IF vertex_1.is_visible /\ vertex_2.is_visible THEN tb__step_two(g, edge_index + 1)
           ELSE LET t     == RDiv(vertex_1.distance, RSub(vertex_1.distance, vertex_2.distance))
                    index == Len(g.vertices)
                    new_vertex ==
                      [position   |-> <<lerp(vertex_1.position[1], vertex_2.position[1], t),
                                        lerp(vertex_1.position[2], vertex_2.position[2], t),
                                        lerp(vertex_1.position[3], vertex_2.position[3], t)>>,
                       distance   |-> R(0),
                       occurs     |-> 0,
                       is_visible |-> TRUE]
                IN  tb__step_two(
                      [g EXCEPT !.edges[edge_index + 1].vertex_indices[IF vertex_1.is_visible THEN 2 ELSE 1] = index,
                                !.vertices = Append(@, new_vertex)],
                      edge_index + 1)

tb__vertex_indices(edges, fe) == [k \in 1..Len(fe) |-> edges[fe[k] + 1].vertex_indices]

tb__count_occurs(g, face_index) ==
  LET fe   == g.faces[face_index + 1].edge_indices
      used == {g.edges[fe[k] + 1].vertex_indices[s] : k \in 1..Len(fe), s \in {1, 2}}
  IN  [g EXCEPT !.vertices =
         [i \in 1..Len(@) |->
            IF (i - 1) \in used
              THEN [@[i] EXCEPT !.occurs = Occurrences(tb__vertex_indices(g.edges, fe), i - 1)]
              ELSE @[i]]]

\* one vertex of the start/final scan: sf = [g, start, final]
tb__pick(sf, vertex_index) ==
  IF sf.g.vertices[vertex_index + 1].occurs # 1 THEN sf
  ELSE IF sf.start = -1 THEN
    [sf EXCEPT !.start = vertex_index, !.g.vertices[vertex_index + 1].occurs = @ + 1]
  ELSE IF sf.final = -1 THEN
    [sf EXCEPT !.final = vertex_index, !.g.vertices[vertex_index + 1].occurs = @ + 1]
  ELSE sf

RECURSIVE tb__scan(_, _, _)
tb__scan(sf, fe, k) ==
  IF k > Len(fe) THEN sf
  ELSE LET edge == sf.g.edges[fe[k] + 1]
       IN  tb__scan(tb__pick(tb__pick(sf, edge.vertex_indices[1]), edge.vertex_indices[2]),
                    fe, k + 1)

\* step three of clip_geometry, from face face_index on: st = [g, new_face]
RECURSIVE tb__step_three(_, _, _, _)
tb__step_three(st, new_face_index, face_count, face_index) ==
  IF face_index >= face_count THEN st
  ELSE IF ~st.g.faces[face_index + 1].is_visible
    THEN tb__step_three(st, new_face_index, face_count, face_index + 1)
  ELSE LET g1 == tb__count_occurs(st.g, face_index)
           sf == tb__scan([g |-> g1, start |-> -1, final |-> -1],
                          g1.faces[face_index + 1].edge_indices, 1)
           new_edge == [is_visible |-> TRUE,
                        vertex_indices |-> <<sf.start, sf.final>>,
                        face_indices |-> <<face_index, new_face_index>>]
           new_edge_index == Len(sf.g.edges)
       IN  IF sf.start # -1 THEN
             tb__step_three(
               [g |-> [sf.g EXCEPT !.faces[face_index + 1].edge_indices = Append(@, new_edge_index),
                                   !.edges = Append(@, new_edge)],
                new_face |-> [st.new_face EXCEPT !.edge_indices = Append(@, new_edge_index)]],
               new_face_index, face_count, face_index + 1)
           ELSE tb__step_three([st EXCEPT !.g = sf.g], new_face_index, face_count, face_index + 1)

\* clip_geometry: the geometry after the call and the clip_result returned
clip_geometryBody(geometry, info) ==
  LET g1            == tb__step_one(geometry, info)
      count_total   == CountTotal(tb__is_clipped(geometry.vertices))
      count_clipped == CountClipped(tb__is_clipped(geometry.vertices), tb__is_clipped(g1.vertices))
  IN  IF count_clipped = 0 THEN [geometry |-> g1, result |-> "RESULT_NO_CLIPPING"]
      ELSE IF count_clipped = count_total
        THEN [geometry |-> g1, result |-> "RESULT_TOTAL_CLIPPING"]
      ELSE LET g2       == tb__step_two(g1, 0)
               new_face == [edge_indices |-> <<>>, is_visible |-> TRUE, info |-> info]
               st       == tb__step_three([g |-> g2, new_face |-> new_face],
                                          Len(g2.faces), Len(g2.faces), 0)
           IN  [geometry |-> [st.g EXCEPT !.faces = Append(@, st.new_face)],
                result |-> "RESULT_PARTIAL_CLIPPING"]

(***************************************************************************)
(* src/unnamed/part_001 : Clip and CreateGeometry.  The containers and the *)
(* vector helpers come from poelib.hpp: PushBack appends, Remove deletes   *)
(* the first occurrence of a value, Allocate hands out zero-filled arena   *)
(* memory, Distance(p, plane) is n.p - c and Lerp is (1 - t) a + t b.      *)
(***************************************************************************)
PushBack(list, value) == Append(list, value)

Remove(value, list) ==
  LET i == FirstIndex(list, value, 1)
  IN  IF i = 0 THEN list ELSE SubSeq(list, 1, i - 1) \o SubSeq(list, i + 1, Len(list))

Distance(position, plane) ==
  RSub(RAdd(RAdd(RMul(plane.normal[1], position[1]), RMul(plane.normal[2], position[2])),
            RMul(plane.normal[3], position[3])),
       plane.c)

Lerp(a, b, t) ==
  <<RAdd(RMul(RSub(R(1), t), a[1]), RMul(t, b[1])),
    RAdd(RMul(RSub(R(1), t), a[2]), RMul(t, b[2])),
    RAdd(RMul(RSub(R(1), t), a[3]), RMul(t, b[3]))>>

\* the arena of poelib, by its used size: Mark records it, Allocate adds
\* the size asked for, Reset goes back to a mark
Mark(arena) == arena

Allocate(arena, size) == arena + size

Reset(arena, mark) == mark

GeometryEdge(v0, v1, f0, f1) == [vertexIndices |-> <<v0, v1>>, faceIndices |-> <<f0, f1>>]

GeometryFace(e0, e1, e2, e3, n0, n1, n2) ==
  [edgeIndices |-> <<e0, e1, e2, e3>>, normal |-> Vec3(n0, n1, n2)]

\* CreateGeometry(AABB bounds, Arena* arena)
CreateGeometry_AABB(bounds) ==
  LET min == vec3_subtract(bounds.center, bounds.halfExtents)
      max == vec3_add(bounds.center, bounds.halfExtents)
  IN  [vertices |-> <<[position |-> <<min[1], min[2], min[3]>>],
                      [position |-> <<min[1], max[2], min[3]>>],
                      [position |-> <<max[1], max[2], min[3]>>],
                      [position |-> <<max[1], min[2], min[3]>>],
                      [position |-> <<min[1], min[2], max[3]>>],
                      [position |-> <<min[1], max[2], max[3]>>],
                      [position |-> <<max[1], max[2], max[3]>>],
                      [position |-> <<max[1], min[2], max[3]>>]>>,
       edges |-> <<GeometryEdge(0, 3, 0, 5), GeometryEdge(1, 2, 0, 4),
                   GeometryEdge(0, 1, 0, 2), GeometryEdge(2, 3, 0, 3),
                   GeometryEdge(4, 7, 1, 5), GeometryEdge(5, 6, 1, 4),
                   GeometryEdge(4, 5, 1, 2), GeometryEdge(6, 7, 1, 3),
                   GeometryEdge(0, 4, 5, 2), GeometryEdge(1, 5, 4, 2),
                   GeometryEdge(3, 7, 5, 3), GeometryEdge(2, 6, 4, 3)>>,
       faces |-> <<GeometryFace(0, 1, 2, 3, 0, 0, -1), GeometryFace(4, 5, 6, 7, 0, 0, 1),
                   GeometryFace(2, 6, 8, 9, -1, 0, 0), GeometryFace(3, 7, 10, 11, 1, 0, 0),
                   GeometryFace(1, 5, 9, 11, 0, 1, 0), GeometryFace(0, 4, 8, 10, 0, -1, 0)>>]

CreateClippingGeometry(geometry) ==
  [vertices |-> [i \in 1..Len(geometry.vertices) |->
                   [position |-> geometry.vertices[i].position, isVisible |-> TRUE]],
   visibleVertexCount |-> Len(geometry.vertices),
   edges |-> [i \in 1..Len(geometry.edges) |->
                [vertexIndices |-> geometry.edges[i].vertexIndices,
                 faceIndices |-> geometry.edges[i].faceIndices,
                 isVisible |-> TRUE]],
   visibleEdgeCount |-> Len(geometry.edges),
   faces |-> [i \in 1..Len(geometry.faces) |->
                [edgeIndices |-> geometry.faces[i].edgeIndices,
                 normal |-> geometry.faces[i].normal,
                 isVisible |-> TRUE]],
   visibleFaceCount |-> Len(geometry.faces),
   aborted |-> FALSE, bad_scan |-> FALSE]

\* step one of Clip: distances[i] of the vertices visible at entry
poe__distance(vertex, plane) ==
  LET d == Distance(vertex.position, plane)
  IN  IF ~vertex.isVisible THEN NaN
      ELSE IF RGeq(d, EPSILON) THEN d
      ELSE IF RGeq(d, RNeg(EPSILON)) THEN R(0)
      ELSE d

\* step one that clips the vertices behind the plane
poe__classifyBehind(vertex, plane) ==
  IF vertex.isVisible /\ RGeq(RNeg(EPSILON), Distance(vertex.position, plane))
    THEN [vertex EXCEPT !.isVisible = FALSE]
    ELSE vertex

poe__classify(vertex, plane) ==
  IF vertex.isVisible /\ RGeq(Distance(vertex.position, plane), EPSILON)
    THEN [vertex EXCEPT !.isVisible = FALSE]
    ELSE vertex

poe__is_clipped(vs) == [i \in 1..Len(vs) |-> ~vs[i].isVisible]

poe__step_one(g, plane) ==
  LET vs == [i \in 1..Len(g.vertices) |-> poe__classify(g.vertices[i], plane)]
  IN  [g EXCEPT !.vertices = vs,
                !.visibleVertexCount = @ - CountClipped(poe__is_clipped(g.vertices), poe__is_clipped(vs))]

\* a cull that forgets the live edge count
poe__cullUncounted(g, i) ==
  LET edge == g.edges[i + 1]
      g1   == [g EXCEPT !.edges[i + 1].isVisible = FALSE,
                        !.faces[edge.faceIndices[1] + 1].edgeIndices = Remove(i, @)]
      g2   == [g1 EXCEPT !.faces[edge.faceIndices[2] + 1].edgeIndices = Remove(i, @)]
      g3   == IF Len(g2.faces[edge.faceIndices[1] + 1].edgeIndices) = 0
                THEN [g2 EXCEPT !.faces[edge.faceIndices[1] + 1].isVisible = FALSE,
                                !.visibleFaceCount = @ - 1]
                ELSE g2
  IN  IF Len(g3.faces[edge.faceIndices[2] + 1].edgeIndices) = 0
        THEN [g3 EXCEPT !.faces[edge.faceIndices[2] + 1].isVisible = FALSE,
                        !.visibleFaceCount = @ - 1]
        ELSE g3

\* the two Remove calls and the two emptiness tests of a fully clipped edge
poe__cull(g, i) ==
  LET edge == g.edges[i + 1]
      g1   == [g EXCEPT !.edges[i + 1].isVisible = FALSE,
                        !.visibleEdgeCount = @ - 1,
                        !.faces[edge.faceIndices[1] + 1].edgeIndices = Remove(i, @)]
      g2   == [g1 EXCEPT !.faces[edge.faceIndices[2] + 1].edgeIndices = Remove(i, @)]
      g3   == IF Len(g2.faces[edge.faceIndices[1] + 1].edgeIndices) = 0
                THEN [g2 EXCEPT !.faces[edge.faceIndices[1] + 1].isVisible = FALSE,
                                !.visibleFaceCount = @ - 1]
                ELSE g2
  IN  IF Len(g3.faces[edge.faceIndices[2] + 1].edgeIndices) = 0
        THEN [g3 EXCEPT !.faces[edge.faceIndices[2] + 1].isVisible = FALSE,
                        !.visibleFaceCount = @ - 1]
        ELSE g3

\* step two of Clip
RECURSIVE poe__step_two(_, _, _)
poe__step_two(g, distances, i) ==
  IF i >= Len(g.edges) THEN g
  ELSE LET edge == g.edges[i + 1]
           v0   == g.vertices[edge.vertexIndices[1] + 1]
           v1   == g.vertices[edge.vertexIndices[2] + 1]
       IN  IF ~edge.isVisible THEN poe__step_two(g, distances, i + 1)
           ELSE IF ~v0.isVisible /\ ~v1.isVisible
             THEN poe__step_two(poe__cull(g, i), distances, i + 1)
           ELSE IF v0.isVisible /\ v1.isVisible THEN poe__step_two(g, distances, i + 1)
           ELSE LET d0 == IF edge.vertexIndices[1] < Len(distances)
                            THEN distances[edge.vertexIndices[1] + 1] ELSE NaN
                    d1 == IF edge.vertexIndices[2] < Len(distances)
                            THEN distances[edge.vertexIndices[2] + 1] ELSE NaN
                    t  == RDiv(d0, RSub(d0, d1))
                    newVertexIndex == Len(g.vertices)
                    newVertex == [position |-> Lerp(v0.position, v1.position, t),
                                  isVisible |-> TRUE]
                IN  poe__step_two(
                      [g EXCEPT !.vertices = PushBack(@, newVertex),
                                !.visibleVertexCount = @ + 1,
                                !.edges[i + 1].vertexIndices[IF v0.isVisible THEN 2 ELSE 1] = newVertexIndex],
                      distances, i + 1)

poe__vertexIndices(edges, fe) == [k \in 1..Len(fe) |-> edges[fe[k] + 1].vertexIndices]

\* the endpoint scan of a face; failed when the assert fires
RECURSIVE poe__scan(_, _, _, _)
poe__scan(g, fe, k, endpointIndices) ==
  IF k > Len(fe) THEN [endpointIndices |-> endpointIndices, failed |-> FALSE]
  ELSE LET edge == g.edges[fe[k] + 1]
           o0   == Occurrences(poe__vertexIndices(g.edges, fe), edge.vertexIndices[1])
           o1   == Occurrences(poe__vertexIndices(g.edges, fe), edge.vertexIndices[2])
           endpointIndex == IF o1 = 1 THEN edge.vertexIndices[2]
                            ELSE IF o0 = 1 THEN edge.vertexIndices[1] ELSE -1
       IN  IF endpointIndex = -1 THEN poe__scan(g, fe, k + 1, endpointIndices)
           ELSE IF endpointIndices[1] = -1
             THEN poe__scan(g, fe, k + 1, <<endpointIndex, endpointIndices[2]>>)
           ELSE IF endpointIndices[2] = -1
             THEN poe__scan(g, fe, k + 1, <<endpointIndices[1], endpointIndex>>)
           ELSE [endpointIndices |-> endpointIndices, failed |-> TRUE]

\* step three of Clip, from face faceIndex on: st = [g, newFace]
RECURSIVE poe__step_three(_, _, _, _)
poe__step_three(st, newFaceIndex, faceCount, faceIndex) ==
  IF st.g.aborted \/ faceIndex >= faceCount THEN st
  ELSE IF ~st.g.faces[faceIndex + 1].isVisible
    THEN poe__step_three(st, newFaceIndex, faceCount, faceIndex + 1)
  ELSE LET g    == st.g
           scan == poe__scan(g, g.faces[faceIndex + 1].edgeIndices, 1, <<-1, -1>>)
           newEdgeIndex == Len(g.edges)
           newEdge == [isVisible |-> TRUE,
                       vertexIndices |-> scan.endpointIndices,
                       faceIndices |-> <<faceIndex, newFaceIndex>>]
       IN  IF scan.failed THEN [st EXCEPT !.g.aborted = TRUE, !.g.bad_scan = TRUE]
           ELSE IF scan.endpointIndices[1] # -1 /\ scan.endpointIndices[2] = -1
             THEN poe__step_three([st EXCEPT !.g.bad_scan = TRUE], newFaceIndex, faceCount,
                                  faceIndex + 1)
           ELSE IF scan.endpointIndices[1] # -1 /\ scan.endpointIndices[2] # -1 THEN
             poe__step_three(
               [g |-> [g EXCEPT !.visibleEdgeCount = @ + 1,
                                !.edges = PushBack(@, newEdge),
                                !.faces[faceIndex + 1].edgeIndices = PushBack(@, newEdgeIndex)],
                newFace |-> [st.newFace EXCEPT !.edgeIndices = PushBack(@, newEdgeIndex)]],
               newFaceIndex, faceCount, faceIndex + 1)
           ELSE poe__step_three(st, newFaceIndex, faceCount, faceIndex + 1)

\* Clip(geometry, plane, temp); the field temp of the geometry is the used
\* size of the arena `temp` the caller hands in: the float array distances
\* is allocated in step one, the occurs arrays of step three are given
\* back with it by the Reset on the last line
ClipBody(geometry, plane) ==
  LET mark          == Mark(geometry.temp)
      g1            == [poe__step_one(geometry, plane) EXCEPT
                          !.temp = Allocate(@, 4 * Len(geometry.vertices))]
      distances     == [i \in 1..Len(geometry.vertices) |-> poe__distance(geometry.vertices[i], plane)]
      countTotal    == CountTotal(poe__is_clipped(geometry.vertices))
      countClipped  == CountClipped(poe__is_clipped(geometry.vertices), poe__is_clipped(g1.vertices))
  IN  IF countClipped = 0 \/ countClipped = countTotal THEN g1
      ELSE LET g2      == poe__step_two(g1, distances, 0)
               newFace == [edgeIndices |-> <<>>, isVisible |-> TRUE, normal |-> plane.normal]
               st      == poe__step_three(
                            [g |-> [g2 EXCEPT !.visibleFaceCount = @ + 1], newFace |-> newFace],
                            Len(g2.faces), Len(g2.faces), 0)
           IN  IF st.g.aborted THEN st.g
               ELSE [st.g EXCEPT !.faces = PushBack(@, st.newFace),
                                 !.temp = Reset(@, mark)]

(***************************************************************************)
(* compaction                                                              *)
(***************************************************************************)
\* the value read from memory that was never written
Indeterminate == 0 - 1

At(map, i) == IF i >= 0 /\ i < Len(map) THEN map[i + 1] ELSE Indeterminate

\* the 0-based indices of the TRUE entries of vis, in increasing order
RECURSIVE Pack(_, _)
Pack(vis, k) ==
  IF k > Len(vis) THEN <<>>
  ELSE (IF vis[k] THEN <<k - 1>> ELSE <<>>) \o Pack(vis, k + 1)

\* a remap that numbers the output from 1
RemapFromOne(vis) ==
  [i \in 1..Len(vis) |->
     IF vis[i] THEN Cardinality({j \in 1..i : vis[j]}) ELSE Indeterminate]

\* the old-to-new map a compaction loop fills in: map[i] = list.count
Remap(vis) ==
  [i \in 1..Len(vis) |->
     IF vis[i] THEN Cardinality({j \in 1..(i - 1) : vis[j]}) ELSE Indeterminate]

\* the second half of tb_geometry_create
tb_compact(geometry) ==
  LET vvis == [i \in 1..Len(geometry.vertices) |-> geometry.vertices[i].is_visible]
      evis == [i \in 1..Len(geometry.edges) |-> geometry.edges[i].is_visible]
      fvis == [i \in 1..Len(geometry.faces) |-> geometry.faces[i].is_visible]
      \* vertex_map is malloc'ed and only the entries of the visible vertices
      \* are written: on a "mixed" heap the others differ from slot to slot
      vertex_map == [i \in 1..Len(vvis) |->
                       IF vvis[i] \/ heap # "mixed" THEN Remap(vvis)[i]
                       ELSE StaleOccurs(heap, i - 1)]
      edge_map   == Remap(evis)
      face_map   == Remap(fvis)
      vsrc == Pack(vvis, 1)
      esrc == Pack(evis, 1)
      fsrc == Pack(fvis, 1)
      vertices == [k \in 1..Len(vsrc) |->
                     [position |-> geometry.vertices[vsrc[k] + 1].position]]
      edges    == [k \in 1..Len(esrc) |->
                     LET c_edge == geometry.edges[esrc[k] + 1]
                     IN  [vertex_indices |-> <<At(vertex_map, c_edge.vertex_indices[1]),
                                               At(vertex_map, c_edge.vertex_indices[2])>>,
                          face_indices |-> <<0, 0>>]]
      faces    == [k \in 1..Len(fsrc) |->
                     LET c_face == geometry.faces[fsrc[k] + 1]
                     IN  [texture |-> c_face.info.texture,
                          edge_indices |-> [i \in 1..Len(c_face.edge_indices) |->
                                              At(edge_map, c_face.edge_indices[i])],
                          normal_vector |-> c_face.info.normal,
                          tangent_vector |-> c_face.info.tangent,
                          world_to_uv_matrix |-> c_face.info.world_to_uv_matrix,
                          uv_offset |-> c_face.info.uv_offset,
                          uv_scale |-> c_face.info.uv_scale]]
  IN  [done |-> TRUE,
       vertices |-> vertices,
       edges |-> [k \in 1..Len(edges) |->
                    [edges[k] EXCEPT !.face_indices = <<At(face_map, @[1]), At(face_map, @[2])>>]],
       faces |-> faces,
       vertex_map |-> vertex_map, edge_map |-> edge_map, face_map |-> face_map,
       overflow |-> FALSE]

\* CreateGeometry(ClippingGeometry* geometry, Arena* storage): the contents
\* of the three FixedLists the loops push to, the edges after the face
\* fix-up loop.  Where result->edges.data and result->faces.data point after
\* the two Allocate(storage, 0) calls is decided by poelib's arena.
poe_compact(geometry) ==
  LET vvis == [i \in 1..Len(geometry.vertices) |-> geometry.vertices[i].isVisible]
      evis == [i \in 1..Len(geometry.edges) |-> geometry.edges[i].isVisible]
      fvis == [i \in 1..Len(geometry.faces) |-> geometry.faces[i].isVisible]
      vertexMap == Remap(vvis)
      edgeMap   == Remap(evis)
      faceMap   == Remap(fvis)
      vsrc == Pack(vvis, 1)
      esrc == Pack(evis, 1)
      fsrc == Pack(fvis, 1)
      vertices == [k \in 1..Len(vsrc) |->
                     [position |-> geometry.vertices[vsrc[k] + 1].position]]
      edges    == [k \in 1..Len(esrc) |->
                     LET edge == geometry.edges[esrc[k] + 1]
                     IN  [vertexIndices |-> <<At(vertexMap, edge.vertexIndices[1]),
                                              At(vertexMap, edge.vertexIndices[2])>>,
                          faceIndices |-> edge.faceIndices]]
      faces    == [k \in 1..Len(fsrc) |->
                     LET face == geometry.faces[fsrc[k] + 1]
                     IN  [edgeIndices |-> [i \in 1..Len(face.edgeIndices) |->
                                             IF i <= 2 THEN At(edgeMap, face.edgeIndices[i])
                                             ELSE face.edgeIndices[i]],
                          normal |-> face.normal]]
  IN  [done |-> TRUE,
       vertices |-> vertices,
       edges |-> [k \in 1..Len(edges) |->
                    [edges[k] EXCEPT !.faceIndices = <<At(faceMap, @[1]), At(faceMap, @[2])>>]],
       faces |-> faces,
       vertex_map |-> vertexMap, edge_map |-> edgeMap, face_map |-> faceMap,
       overflow |-> (Len(vsrc) > geometry.visibleVertexCount
                     \/ Len(esrc) > geometry.visibleEdgeCount
                     \/ Len(fsrc) > geometry.visibleFaceCount)]

\* tb_model_create: the triangles of the fan of one face, whose closed list
\* sorted_vertex_indices holds edge_count + 1 entries
tb_fan_triangles(face) ==
  LET count == Len(face.edge_indices) + 1
  IN  IF count - 2 > 1 THEN count - 3 ELSE 0

RECURSIVE tb_model_triangles(_, _)
tb_model_triangles(geometry, face_index) ==
  IF face_index >= Len(geometry.faces) THEN 0
  ELSE tb_fan_triangles(geometry.faces[face_index + 1])
         + tb_model_triangles(geometry, face_index + 1)

(***************************************************************************)
(* inputs                                                                  *)
(***************************************************************************)
\* #define WORLD_SIZE in tb_geometry.cpp and in the poelib clipper
WORLD_SIZE_tb == 100000

WORLD_SIZE_poe == 10000

\* longest sequence of arbitrary brush planes
MaxClips == 3

Plane(n, c) == [normal |-> n, c |-> c]

\* brush planes, unit normals: the solid side is n.p <= c
Planes ==
  <<Plane(Vec3(1, 0, 0), R(0)),
    Plane(Vec3(-1, 0, 0), R(0)),
    Plane(Vec3(0, 1, 0), R(64)),
    Plane(Vec3(0, 0, 1), R(64)),
    Plane(<<Rat(3, 5), Rat(4, 5), R(0)>>, R(0)),
    Plane(Vec3(1, 0, 0), Rat(1, 200)),
    Plane(Vec3(1, 0, 0), R(-1000000)),
    Plane(Vec3(1, 0, 0), R(1000000)),
    Plane(Vec3(1, 0, 0), R(64)),
    Plane(Vec3(-1, 0, 0), R(64)),
    Plane(Vec3(0, -1, 0), R(64)),
    Plane(Vec3(0, 0, -1), R(64)),
    Plane(<<R(0), Rat(3, 5), Rat(4, 5)>>, R(0)),
    Plane(<<Rat(2, 3), Rat(2, 3), Rat(1, 3)>>, R(0)),
    Plane(<<Rat(2, 3), Rat(2, 3), Rat(1, 3)>>, R(80)),
    Plane(<<Rat(3, 5), Rat(4, 5), R(0)>>, R(64)),
    Plane(Vec3(1, 0, 0), Rat(1, 100)),
    Plane(Vec3(0, -1, 0), R(0)),
    Plane(Vec3(0, 0, -1), R(0)),
    Plane(<<Rat(4, 7), Rat(4, 7), Rat(4, 7)>>, Rat(4, 7))>>

\* the tetrahedron with the vertices (0,0,0), (1,0,0), (0,1,0), (0,0,1):
\* x >= 0, y >= 0, z >= 0 and x + y + z <= 1, the normal of the last one
\* (1,1,1)/sqrt(3) to two digits
Tetrahedron == <<2, 18, 19, 20>>

\* the planes that follow one another in any order
FreePlanes == {1, 2, 3, 4, 5, 7, 8}

\* the six planes of an axis-aligned box brush, brushes whose planes lie
\* within EPSILON of one another, brushes of oblique planes, the box with
\* one corner and with one edge cut off, two planes EPSILON apart, and the
\* tetrahedron
ScenarioBrushes ==
  {<<9, 10, 3, 11, 4, 12>>, <<1, 6, 3, 2>>, <<6, 1, 4, 2>>, <<3, 6, 1, 7>>,
   <<14, 13, 5, 1>>, <<5, 13, 1, 14>>, <<13, 14, 3, 2>>,
   <<9, 10, 3, 11, 4, 12, 15>>, <<9, 10, 3, 11, 4, 12, 16>>, <<1, 17>>,
   Tetrahedron}

IsPrefix(s, t) == Len(s) <= Len(t) /\ SubSeq(t, 1, Len(s)) = s

\* the brushes fed to the clippers: every plane sequence that is one
IsBrush(s) ==
  \/ Len(s) <= MaxClips /\ \A k \in 1..Len(s) : s[k] \in FreePlanes
  \/ \E b \in ScenarioBrushes : IsPrefix(s, b)

\* the tb_brush_face of a brush plane: one of three textures, UV axes in
\* the plane, offsets and scales as written in the map
tb_brush_face(id) ==
  LET n == Planes[id].normal
  IN  [texture  |-> (id % 3) + 1,
       u_normal |-> IF n[1] = R(0) THEN Vec3(1, 0, 0) ELSE Vec3(0, 0, 1),
       v_normal |-> IF n[1] = R(0) /\ n[2] = R(0) THEN Vec3(0, -1, 0)
                    ELSE IF n[1] = R(0) THEN Vec3(0, 0, -1) ELSE Vec3(0, -1, 0),
       u_offset |-> R(id % 2), v_offset |-> R(16),
       u_scale  |-> IF id % 2 = 0 THEN R(2) ELSE R(1),
       v_scale  |-> IF id % 4 = 0 THEN Rat(1, 2) ELSE R(1)]

\* the face_info tb_geometry_create builds for a brush face; of
\* world_to_uv_matrix the rows [0][0..2] and [1][0..2], the only entries
\* the mesh builder reads; point (plane[0] of the face) is the point of the
\* plane nearest to the origin
InfoOf(id) ==
  LET plane == Planes[id]
      face  == tb_brush_face(id)
  IN  [texture |-> face.texture, normal |-> plane.normal,
       point |-> LET k == RDiv(plane.c, vec3_dot_product(plane.normal, plane.normal))
                 IN  <<RMul(plane.normal[1], k), RMul(plane.normal[2], k),
                       RMul(plane.normal[3], k)>>,
       tangent |-> face.u_normal,
       world_to_uv_matrix |-> <<face.u_normal, face.v_normal>>,
       uv_scale |-> <<RDiv(R(1), face.u_scale), RDiv(R(1), face.v_scale)>>,
       uv_offset |-> <<face.u_offset, face.v_offset>>]

\* the caller's buffers handed to ptc_init_bounds
PtcCapacities == {8, 64}

PtcMin == Vec3(-10000, -10000, -10000)

PtcMax == Vec3(10000, 10000, 10000)

PtcMesh(capacity) ==
  ptc_init_bounds(
    [vertices |-> <<>>, edges |-> <<>>, faces |-> <<>>,
     vertex_capacity |-> capacity, edge_capacity |-> 2 * capacity, face_capacity |-> capacity,
     vertex_alloc |-> capacity, edge_alloc |-> 2 * capacity, face_alloc |-> capacity,
     overrun |-> FALSE, aborted |-> FALSE, bad_scan |-> FALSE],
    PtcMin, PtcMax)

NoOutput ==
  [done |-> FALSE, vertices |-> <<>>, edges |-> <<>>, faces |-> <<>>,
   vertex_map |-> <<>>, edge_map |-> <<>>, face_map |-> <<>>, overflow |-> FALSE]

(***************************************************************************)
(* the state machine                                                       *)
(***************************************************************************)
\* no mesh was built and no face loop was asked for
NoModel == [kind |-> "none"]

Init ==
  /\ impl \in {"ptc", "tb", "poe"}
  /\ heap \in (IF impl = "ptc" THEN {"zeroed", "filled", "mixed"} ELSE {"zeroed"})
  /\ mesh \in (CASE impl = "ptc" -> {PtcMesh(c) : c \in PtcCapacities}
                 [] impl = "tb"  -> {get_geometry_from_bounds(
                                       Vec3(0, 0, 0),
                                       Vec3(WORLD_SIZE_tb, WORLD_SIZE_tb, WORLD_SIZE_tb))}
                 [] OTHER        -> {[temp |-> used] @@
                                     CreateClippingGeometry(CreateGeometry_AABB(
                                       [center |-> Vec3(0, 0, 0),
                                        halfExtents |-> Vec3(WORLD_SIZE_poe, WORLD_SIZE_poe,
                                                             WORLD_SIZE_poe)])) :
                                     used \in {0, 1024}})
  /\ pre = mesh
  /\ applied = <<>>
  /\ results = <<>>
  /\ out = NoOutput
  /\ model = NoModel

ptc_clip(id) ==
  /\ impl = "ptc"
  /\ ~mesh.aborted
  /\ IsBrush(Append(applied, id))
  /\ pre' = mesh
  /\ mesh' = ptc_clipBody(mesh, Planes[id], id)
  /\ applied' = Append(applied, id)
  /\ results' = Append(results, ClipResult(ptc__is_clipped(mesh.vertices),
                                           ptc__is_clipped(ptc__step_one(mesh, Planes[id]).vertices)))
  /\ UNCHANGED <<impl, heap, out, model>>

clip_geometry(id) ==
  /\ impl = "tb"
  /\ ~out.done
  /\ IsBrush(Append(applied, id))
  /\ pre' = mesh
  /\ mesh' = clip_geometryBody(mesh, InfoOf(id)).geometry
  /\ applied' = Append(applied, id)
  /\ results' = Append(results, clip_geometryBody(mesh, InfoOf(id)).result)
  /\ UNCHANGED <<impl, heap, out, model>>

tb_geometry_create ==
  /\ impl = "tb"
  /\ ~out.done
  /\ out' = tb_compact(mesh)
  /\ UNCHANGED <<impl, heap, mesh, pre, applied, results, model>>

Clip(id) ==
  /\ impl = "poe"
  /\ ~out.done
  /\ ~mesh.aborted
  /\ IsBrush(Append(applied, id))
  /\ pre' = mesh
  /\ mesh' = ClipBody(mesh, Planes[id])
  /\ applied' = Append(applied, id)
  /\ results' = Append(results, ClipResult(poe__is_clipped(mesh.vertices),
                                           poe__is_clipped(poe__step_one(mesh, Planes[id]).vertices)))
  /\ UNCHANGED <<impl, heap, out, model>>

CreateGeometry ==
  /\ impl = "poe"
  /\ ~out.done
  /\ ~mesh.aborted
  /\ out' = poe_compact(mesh)
  /\ UNCHANGED <<impl, heap, mesh, pre, applied, results, model>>

Next ==
  \/ \E id \in 1..Len(Planes) : ptc_clip(id)
  \/ \E id \in 1..Len(Planes) : clip_geometry(id)
  \/ tb_geometry_create
  \/ \E id \in 1..Len(Planes) : Clip(id)
  \/ CreateGeometry

Spec == Init /\ [][Next]_vars

(***************************************************************************)
(* the three B-rep layouts seen through one set of accessors               *)
(***************************************************************************)
IsVisible(x) ==
  CASE impl = "ptc" -> ~x.is_clipped
    [] impl = "tb"  -> x.is_visible
    [] OTHER        -> x.isVisible

EdgeVertices(e) ==
  CASE impl = "ptc" -> e.vertices
    [] impl = "tb"  -> e.vertex_indices
    [] OTHER        -> e.vertexIndices

EdgeFaces(e) ==
  CASE impl = "ptc" -> e.faces
    [] impl = "tb"  -> e.face_indices
    [] OTHER        -> e.faceIndices

FaceEdges(f) ==
  CASE impl = "ptc" -> f.edges
    [] impl = "tb"  -> f.edge_indices
    [] OTHER        -> f.edgeIndices

FaceNormal(f) == IF impl = "tb" THEN f.info.normal ELSE f.normal

\* a PTC_ASSERT or assert stopped the call
Aborted(m) == impl \in {"ptc", "poe"} /\ m.aborted

InRange(i, s) == i >= 0 /\ i < Len(s)

Listed(s, x) == \E k \in 1..Len(s) : s[k] = x

VisibleVertices(m) == {i \in 0..(Len(m.vertices) - 1) : IsVisible(m.vertices[i + 1])}

VisibleEdges(m) == {i \in 0..(Len(m.edges) - 1) : IsVisible(m.edges[i + 1])}

VisibleFaces(m) == {i \in 0..(Len(m.faces) - 1) : IsVisible(m.faces[i + 1])}

\* the plane of the last clip call
LastPlane == Planes[applied[Len(applied)]]

\* what the last clip call did to the vertices visible at its entry
ClippedByLast == VisibleVertices(pre) \ VisibleVertices(mesh)

LastWasPartial ==
  /\ applied # <<>>
  /\ ClippedByLast # {}
  /\ ClippedByLast # VisibleVertices(pre)

(***************************************************************************)
(* I1: the vertices of visible edges                                       *)
(***************************************************************************)
EdgesReferToVisibleVertices(m) ==
  \A e \in VisibleEdges(m) : \A s \in {1, 2} :
    EdgeVertices(m.edges[e + 1])[s] \in VisibleVertices(m)

\* C1: after every clip call (ptc_clip, clip_geometry), early returns
\* included, both vertex indices of every visible edge refer to visible
\* vertices.
C1_VisibleEdgesReferToVisibleVertices ==
  (impl \in {"ptc", "tb"} /\ ~Aborted(mesh)) => EdgesReferToVisibleVertices(mesh)

(***************************************************************************)
(* I2, I3: edge/face adjacency                                             *)
(***************************************************************************)
AdjacencyConsistent(m) ==
  /\ \A e \in VisibleEdges(m) : \A s \in {1, 2} :
       LET f == EdgeFaces(m.edges[e + 1])[s]
       IN  f \in VisibleFaces(m) /\ Listed(FaceEdges(m.faces[f + 1]), e)
  /\ \A f \in VisibleFaces(m) : \A k \in 1..Len(FaceEdges(m.faces[f + 1])) :
       LET e == FaceEdges(m.faces[f + 1])[k]
       IN  e \in VisibleEdges(m) /\ f \in {EdgeFaces(m.edges[e + 1])[1], EdgeFaces(m.edges[e + 1])[2]}

\* C2: after every ptc_clip call the adjacency is consistent both ways:
\* a visible edge names two visible faces that list it, and every edge a
\* visible face lists is visible and names that face.
C2_AdjacencyConsistent ==
  (impl = "ptc" /\ ~Aborted(mesh)) => AdjacencyConsistent(mesh)

(***************************************************************************)
(* P1: closed faces                                                        *)
(***************************************************************************)
FaceVertices(m, f) ==
  {EdgeVertices(m.edges[FaceEdges(m.faces[f + 1])[k] + 1])[s] :
     k \in 1..Len(FaceEdges(m.faces[f + 1])), s \in {1, 2}}

FaceClosed(m, f) ==
  \A v \in FaceVertices(m, f) :
    Occurrences([k \in 1..Len(FaceEdges(m.faces[f + 1])) |->
                   EdgeVertices(m.edges[FaceEdges(m.faces[f + 1])[k] + 1])], v) = 2

WellFormed(m) ==
  /\ EdgesReferToVisibleVertices(m)
  /\ AdjacencyConsistent(m)
  /\ \A f \in VisibleFaces(m) : FaceClosed(m, f)

\* C3: a clip call (ptc_clip, Clip) on a B-rep that satisfies the invariants
\* and that clips some but not all visible vertices leaves every visible
\* face, the cap included, with an edge set in which every referenced vertex
\* is an endpoint of exactly two edges.
C3_FacesClosedAfterPartialClip ==
  (impl \in {"ptc", "poe"} /\ LastWasPartial /\ ~Aborted(mesh) /\ WellFormed(pre))
    => \A f \in VisibleFaces(mesh) : FaceClosed(mesh, f)

C3_Witness ==
  /\ impl \in {"ptc", "poe"}
  /\ LastWasPartial /\ ~Aborted(mesh) /\ WellFormed(pre)
  /\ Len(applied) >= 2
  /\ Len(mesh.faces) > Len(pre.faces)
  /\ IsVisible(mesh.faces[Len(mesh.faces)])
  /\ Len(FaceEdges(mesh.faces[Len(mesh.faces)])) >= 3

\* C5: whatever sequence of clip calls led from the seed cube to a B-rep,
\* step three (ptc_clip, Clip) finds exactly 0 or 2 endpoints in every
\* visible face, so the assertion on a third endpoint never fails.
C5_ZeroOrTwoEndpoints ==
  impl \in {"ptc", "poe"} => ~mesh.bad_scan

(***************************************************************************)
(* P3: a call that clips nothing                                           *)
(***************************************************************************)
NothingToClip(m, plane) ==
  \A v \in VisibleVertices(m) :
    ~RGeq(ptc__plane_distance(plane, m.vertices[v + 1].position), EPSILON)

\* C6: a ptc_clip call for which no visible vertex has a signed distance of
\* at least EPSILON changes no vertex position, no visibility flag, no
\* vertex or face index of an edge, no edge set of a face and no element
\* count, and adds no cap.
C6_NoClipChangesNothing ==
  (impl = "ptc" /\ applied # <<>> /\ NothingToClip(pre, LastPlane))
    => /\ Len(mesh.vertices) = Len(pre.vertices)
       /\ \A i \in 1..Len(pre.vertices) :
            /\ mesh.vertices[i].position = pre.vertices[i].position
            /\ mesh.vertices[i].is_clipped = pre.vertices[i].is_clipped
       /\ mesh.edges = pre.edges
       /\ mesh.faces = pre.faces

C6_Witness ==
  /\ impl = "ptc" /\ applied # <<>> /\ NothingToClip(pre, LastPlane)
  /\ \E v \in VisibleVertices(pre) :
       RGeq(ptc__plane_distance(LastPlane, pre.vertices[v + 1].position), RNeg(EPSILON))
  /\ mesh.vertices # pre.vertices

(***************************************************************************)
(* P2: the cap                                                             *)
(***************************************************************************)
NewEdges == {e \in 0..(Len(mesh.edges) - 1) : e >= Len(pre.edges)}

CapOfLast == Len(mesh.faces) - 1

\* C7: a clip call (ptc_clip, clip_geometry) that clips some but not all
\* visible vertices appends exactly one face; it is visible, its normal is
\* the plane's normal, its edge set is exactly the closing edges the call
\* created, one per opened face, and each closing edge has the face pair
\* (opened face, cap) and is listed by both faces.
C7_OneCapPerPartialClip ==
  (impl \in {"ptc", "tb"} /\ LastWasPartial /\ ~Aborted(mesh))
    => /\ Len(mesh.faces) = Len(pre.faces) + 1
       /\ IsVisible(mesh.faces[CapOfLast + 1])
       /\ FaceNormal(mesh.faces[CapOfLast + 1]) = LastPlane.normal
       /\ Len(FaceEdges(mesh.faces[CapOfLast + 1])) = Cardinality(NewEdges)
       /\ \A e \in NewEdges : Listed(FaceEdges(mesh.faces[CapOfLast + 1]), e)
       /\ \A e \in NewEdges :
            LET f == EdgeFaces(mesh.edges[e + 1])[1]
            IN  /\ EdgeFaces(mesh.edges[e + 1])[2] = CapOfLast
                /\ f \in VisibleFaces(mesh) /\ f < CapOfLast
                /\ Listed(FaceEdges(mesh.faces[f + 1]), e)
                /\ \A e2 \in NewEdges : EdgeFaces(mesh.edges[e2 + 1])[1] = f => e2 = e

(***************************************************************************)
(* P4: containment in the brush                                            *)
(***************************************************************************)
\* C8: once brush planes were applied (ptc_clip, the clip loop of
\* tb_geometry_create), every visible vertex p has n.p - c < EPSILON for
\* every applied plane (n, c).
C8_VisibleVerticesInsideBrush ==
  (impl \in {"ptc", "tb"} /\ ~Aborted(mesh))
    => \A v \in VisibleVertices(mesh) : \A k \in 1..Len(applied) :
         RLt(ptc__plane_distance(Planes[applied[k]], mesh.vertices[v + 1].position), EPSILON)

(***************************************************************************)
(* degenerate brushes                                                      *)
(***************************************************************************)
SomePlaneClippedEverything ==
  \E k \in 1..Len(results) : results[k] = "RESULT_TOTAL_CLIPPING"

\* C4: when some plane of the brush clipped every visible vertex,
\* tb_geometry_create yields an empty compacted B-rep (no vertex, no edge,
\* no face) and the mesh builder emits no triangle for the brush.
C4_TotalClipYieldsEmptyOutput ==
  (impl = "tb" /\ out.done /\ SomePlaneClippedEverything)
    => /\ out.vertices = <<>>
       /\ out.edges = <<>>
       /\ out.faces = <<>>
       /\ tb_model_triangles(out, 0) = 0

(***************************************************************************)
(* compaction                                                              *)
(***************************************************************************)
\* C9: after the compaction of tb_geometry_create both face indices of an
\* output edge are the images under the face remap of the face indices the
\* edge held before, so they refer to output faces that list the edge, and
\* both vertex indices are the images of its vertices under the vertex remap.
C9_OutputEdgesRemapped ==
  (impl = "tb" /\ out.done)
    => \A e \in VisibleEdges(mesh) :
         LET c_edge == mesh.edges[e + 1]
             edge   == out.edges[out.edge_map[e + 1] + 1]
         IN  \A s \in {1, 2} :
               /\ edge.vertex_indices[s] = At(out.vertex_map, c_edge.vertex_indices[s])
               /\ edge.face_indices[s] = At(out.face_map, c_edge.face_indices[s])
               /\ InRange(edge.face_indices[s], out.faces)
               /\ Listed(out.faces[edge.face_indices[s] + 1].edge_indices, out.edge_map[e + 1])

\* the remap restricted to the visible entities is a strictly increasing
\* bijection onto 0..count-1
IncreasingOnto(map, visible, count) ==
  /\ Cardinality(visible) = count
  /\ \A i \in visible : map[i + 1] >= 0 /\ map[i + 1] < count
  /\ \A i \in visible : \A j \in visible : i < j => map[i + 1] < map[j + 1]

OutEdgeVertices(e) == IF impl = "tb" THEN e.vertex_indices ELSE e.vertexIndices

OutFaceEdges(f) == IF impl = "tb" THEN f.edge_indices ELSE f.edgeIndices

C11_OutputFaceEdgesRemapped ==
  (impl = "poe" /\ out.done)
    => \A f \in VisibleFaces(mesh) :
         LET face   == mesh.faces[f + 1]
             result == out.faces[out.face_map[f + 1] + 1]
         IN  /\ Len(result.edgeIndices) = Len(face.edgeIndices)
             /\ \A i \in 1..Len(face.edgeIndices) :
                  result.edgeIndices[i] = At(out.edge_map, face.edgeIndices[i])

(***************************************************************************)
(* texture attributes                                                      *)
(***************************************************************************)
\* the brush plane whose partial clip created face f as its cap: the caps
\* follow the six seed faces in the order of the partial clips
CapPlane(f) ==
  LET partial == {k \in 1..Len(results) : results[k] = "RESULT_PARTIAL_CLIPPING"}
      k == CHOOSE k \in partial :
             Cardinality({j \in partial : j < k}) = f - 6
  IN  applied[k]

\* C12: a face of the compacted B-rep that was created as the cap of brush
\* plane P carries the texture identifier, normal, tangent, UV axes, UV
\* offset and UV scale recorded for P, and a clip of the same brush leaves
\* the texture attributes of every face that existed before it unchanged.
C12_TextureAttributesCarried ==
  impl = "tb"
    => /\ \A f \in 0..(Len(pre.faces) - 1) : mesh.faces[f + 1].info = pre.faces[f + 1].info
       /\ out.done =>
            \A f \in VisibleFaces(mesh) : f >= 6 =>
              LET P    == CapPlane(f)
                  face == out.faces[out.face_map[f + 1] + 1]
              IN  /\ face.texture = tb_brush_face(P).texture
                  /\ face.normal_vector = Planes[P].normal
                  /\ face.tangent_vector = tb_brush_face(P).u_normal
                  /\ face.world_to_uv_matrix = <<tb_brush_face(P).u_normal, tb_brush_face(P).v_normal>>
                  /\ face.uv_offset = <<tb_brush_face(P).u_offset, tb_brush_face(P).v_offset>>
                  /\ face.uv_scale = <<tb_brush_face(P).u_scale, tb_brush_face(P).v_scale>>

(***************************************************************************)
(* the seed cube                                                           *)
(***************************************************************************)
\* C20: the seed cube (ptc_init_bounds, CreateGeometry(AABB)) has 8
\* vertices in the fixed corner order, 12 edges and 6 faces, all visible;
\* every edge joins two corners that differ in exactly one coordinate,
\* names two different faces and is listed by exactly those two; the four
\* edges of every face form one closed 4-cycle; every face normal is the
\* outward unit axis on whose side the face's four vertices lie.
C20_SeedCubeWired ==
  (impl \in {"ptc", "poe"} /\ applied = <<>>)
    => LET W == IF impl = "ptc" THEN PtcMax[1] ELSE R(WORLD_SIZE_poe)
           pos(v) == mesh.vertices[v + 1].position
           corner(v) == <<IF (v % 4) \in {2, 3} THEN W ELSE RNeg(W),
                          IF (v % 4) \in {1, 2} THEN W ELSE RNeg(W),
                          IF v >= 4 THEN W ELSE RNeg(W)>>
       IN  /\ Len(mesh.vertices) = 8 /\ Len(mesh.edges) = 12 /\ Len(mesh.faces) = 6
           /\ VisibleVertices(mesh) = 0..7 /\ VisibleEdges(mesh) = 0..11
           /\ VisibleFaces(mesh) = 0..5
           /\ \A v \in 0..7 : pos(v) = corner(v)
           /\ \A e \in 0..11 :
                LET vs == EdgeVertices(mesh.edges[e + 1])
                    fs == EdgeFaces(mesh.edges[e + 1])
                IN  /\ vs[1] \in 0..7 /\ vs[2] \in 0..7
                    /\ Cardinality({c \in 1..3 : pos(vs[1])[c] # pos(vs[2])[c]}) = 1
                    /\ fs[1] # fs[2]
                    /\ {f \in 0..5 : Listed(FaceEdges(mesh.faces[f + 1]), e)} = {fs[1], fs[2]}
           /\ \A f \in 0..5 :
                LET es == FaceEdges(mesh.faces[f + 1])
                    n  == FaceNormal(mesh.faces[f + 1])
                IN  /\ Len(es) = 4
                    /\ Cardinality({es[k] : k \in 1..4}) = 4
                    /\ Cardinality(FaceVertices(mesh, f)) = 4
                    /\ FaceClosed(mesh, f)
                    /\ Cardinality({c \in 1..3 : n[c] # R(0)}) = 1
                    /\ \A v \in FaceVertices(mesh, f) : ptc__dot_product(n, pos(v)) = W

C20_Witness ==
  /\ impl = "poe" /\ applied = <<>> /\ ~out.done
  /\ Len(mesh.faces) = 6
  /\ FaceNormal(mesh.faces[5]) = Vec3(0, 1, 0)

(***************************************************************************)
(* tb_model.cpp: the mesh builder.  A mesh_data is a record of its five    *)
(* streams, its vertex_count and its texture.                              *)
(***************************************************************************)
vec3_cross_product(a, b) ==
  <<RSub(RMul(a[2], b[3]), RMul(a[3], b[2])),
    RSub(RMul(a[3], b[1]), RMul(a[1], b[3])),
    RSub(RMul(a[1], b[2]), RMul(a[2], b[1]))>>

\* (float)((int)roundf(value)): halves round away from zero
round_to_int(value) ==
  IF ~IsFinite(value) THEN value
  ELSE IF value[1] >= 0 THEN R((2 * value[1] + value[2]) \div (2 * value[2]))
  ELSE R(0 - ((2 * (0 - value[1]) + value[2]) \div (2 * value[2])))

\* a batch that does not record its texture
create_mesh_dataUnnamed(texture) ==
  [vertex_count |-> 0, texture |-> 0, vertex_positions |-> <<>>,
   vertex_tangents |-> <<>>, vertex_normals |-> <<>>, vertex_uvs |-> <<>>,
   indices |-> <<>>]

create_mesh_data(texture) ==
  [vertex_count |-> 0, texture |-> texture, vertex_positions |-> <<>>,
   vertex_tangents |-> <<>>, vertex_normals |-> <<>>, vertex_uvs |-> <<>>,
   indices |-> <<>>]

\* no edge is followed: the loop is the start vertex alone
tb__sort_edgesNone(geometry, sorted_vertex_indices, unsorted_edge_indices) ==
  [sorted |-> sorted_vertex_indices, hung |-> FALSE]

\* the while loop that sorts the edges into a continuous loop; hung when
\* a pass over unsorted_edge_indices finds no edge at the last vertex, so
\* that the loop never ends
RECURSIVE tb__sort_edges(_, _, _)
tb__sort_edges(geometry, sorted_vertex_indices, unsorted_edge_indices) ==
  IF unsorted_edge_indices = <<>>
    THEN [sorted |-> sorted_vertex_indices, hung |-> FALSE]
  ELSE LET last == sorted_vertex_indices[Len(sorted_vertex_indices)]
           hits == {i \in 1..Len(unsorted_edge_indices) :
                      \E s \in {1, 2} :
                        geometry.edges[unsorted_edge_indices[i] + 1].vertex_indices[s] = last}
       IN  IF hits = {} THEN [sorted |-> sorted_vertex_indices, hung |-> TRUE]
           ELSE LET i == CHOOSE i \in hits : \A j \in hits : i <= j
                    current_edge == geometry.edges[unsorted_edge_indices[i] + 1]
                IN  tb__sort_edges(
                      geometry,
                      Append(sorted_vertex_indices,
                             IF current_edge.vertex_indices[1] = last
                               THEN current_edge.vertex_indices[2]
                               ELSE current_edge.vertex_indices[1]),
                      remove_from_list(unsorted_edge_indices, unsorted_edge_indices[i]))

\* positions are divided by WindingScale before the cross products: the
\* accumulator is normalised before it is used, so only its direction counts
WindingScale == 1000

\* geometry->vertices[index]: an index outside the list reads whatever the
\* memory at that place holds
tb__vertex(vertices, index) ==
  IF index >= 0 /\ index < Len(vertices) THEN vertices[index + 1]
  ELSE [position |-> <<StaleDistance(heap, index), StaleDistance(heap, index),
                       StaleDistance(heap, index)>>]

RECURSIVE tb__normal_accumulator(_, _, _)
tb__normal_accumulator(vertices, sorted_vertex_indices, i) ==
  IF i > Len(sorted_vertex_indices) - 2 THEN Vec3(0, 0, 0)
  ELSE LET p0 == tb__vertex(vertices, sorted_vertex_indices[i + 1]).position
           p1 == tb__vertex(vertices, sorted_vertex_indices[i + 2]).position
           s(p) == <<RDiv(p[1], R(WindingScale)), RDiv(p[2], R(WindingScale)),
                     RDiv(p[3], R(WindingScale))>>
       IN  vec3_add(vec3_cross_product(s(p0), s(p1)),
                    tb__normal_accumulator(vertices, sorted_vertex_indices, i + 1))

\* should_reverse_order: the accumulator divided by its length against the
\* face normal; the length is 0, and the quotient NaN, exactly when every
\* component of the accumulator is 0
\* the fan never swapped
should_reverse_orderNever(geometry, face, sorted_vertex_indices) == FALSE

should_reverse_order(geometry, face, sorted_vertex_indices) ==
  LET normal_accumulator == tb__normal_accumulator(geometry.vertices, sorted_vertex_indices, 0)
      normalized == IF normal_accumulator = Vec3(0, 0, 0) THEN <<NaN, NaN, NaN>>
                    ELSE normal_accumulator
  IN  RLt(R(0), vec3_dot_product(face.normal_vector, normalized))

\* one pass of the face loop of tb_model_create over face face_index of
\* geometry: the meshes after it, and the locals of the pass
\* a fan with one triangle for every i in 1 .. k-1
tb__fan_countToLast(count) == count - 2

\* the passes of `for (int i = 1; i < sorted_vertex_indices.count - 2; i++)`
tb__fan_count(count) == IF count - 2 > 1 THEN count - 3 ELSE 0

\* an index that names the vertex within its brush
tb__indexOfBrush(vertex_map, v) == v

\* (unsigned short)vertex_map[v]
tb__index(vertex_map, v) == At(vertex_map, v) % 65536

\* a tangent without the fourth component
tb__vertex_tangentUnpadded(face) == face.tangent_vector

\* the four values one vertex adds to vertex_tangents
tb__vertex_tangent(face) ==
  <<face.tangent_vector[1], face.tangent_vector[2], face.tangent_vector[3], R(0)>>

tb_model_create_face(meshes, geometry, face_index) ==
  LET face   == geometry.faces[face_index + 1]
      cached == {m \in 1..Len(meshes) : meshes[m].texture = face.texture}
      meshes1 == IF cached = {} THEN Append(meshes, create_mesh_data(face.texture))
                 ELSE meshes
      mesh_index == IF cached = {} THEN Len(meshes1)
                    ELSE CHOOSE m \in cached : \A n \in cached : m <= n
      data   == meshes1[mesh_index]
      initial_edge == geometry.edges[face.edge_indices[1] + 1]
      loop   == tb__sort_edges(geometry, <<initial_edge.vertex_indices[1]>>,
                               Tail(face.edge_indices))
      sorted_vertex_indices == Append(loop.sorted, loop.sorted[1])
      count  == Len(sorted_vertex_indices)
      reverse == should_reverse_order(geometry, face, sorted_vertex_indices)
      written(v) == {i \in 0..(count - 2) : sorted_vertex_indices[i + 1] = v}
      vertex_map == [v \in 1..Len(geometry.vertices) |->
                       IF written(v - 1) = {} THEN Indeterminate
                       ELSE data.vertex_count
                              + (CHOOSE i \in written(v - 1) : \A j \in written(v - 1) : j <= i)]
      vertex(i) == tb__vertex(geometry.vertices, sorted_vertex_indices[i + 1])
      uv(i, c) == RAdd(RMul(vec3_dot_product(vertex(i).position, face.world_to_uv_matrix[c]),
                            face.uv_scale[c]),
                       face.uv_offset[c])
      index(i) == tb__index(vertex_map, sorted_vertex_indices[i + 1])
      fan == tb__fan_count(count)
  IN  [hung |-> loop.hung,
       mesh_index |-> mesh_index,
       sorted_vertex_indices |-> sorted_vertex_indices,
       should_reverse_order |-> reverse,
       vertex_map |-> vertex_map,
       meshes |->
         [meshes1 EXCEPT ![mesh_index] =
            [texture |-> data.texture,
             vertex_count |-> data.vertex_count + (count - 1),
             vertex_positions |-> data.vertex_positions \o
               [j \in 1..(3 * (count - 1)) |->
                  round_to_int(vertex((j - 1) \div 3).position[((j - 1) % 3) + 1])],
             vertex_normals |-> data.vertex_normals \o
               [j \in 1..(3 * (count - 1)) |-> face.normal_vector[((j - 1) % 3) + 1]],
             vertex_tangents |-> data.vertex_tangents \o
               [j \in 1..(Len(tb__vertex_tangent(face)) * (count - 1)) |->
                  tb__vertex_tangent(face)[((j - 1) % Len(tb__vertex_tangent(face))) + 1]],
             vertex_uvs |-> data.vertex_uvs \o
               [j \in 1..(2 * (count - 1)) |-> uv((j - 1) \div 2, ((j - 1) % 2) + 1)],
             indices |-> data.indices \o
               [j \in 1..(3 * fan) |->
                  LET i == ((j - 1) \div 3) + 1
                      c == (j - 1) % 3
                  IN  IF c = 0 THEN index(0)
                      ELSE IF (c = 1) = reverse THEN index(i + 1)
                      ELSE index(i)]]]]

\* tb_geometry_create(brush, out_geometry): the clip loop over the brush
\* faces from face i on, then the compaction
RECURSIVE tb_geometry_createBody(_, _, _)
tb_geometry_createBody(geometry, brush, i) ==
  IF i > Len(brush) THEN tb_compact(geometry)
  ELSE tb_geometry_createBody(clip_geometryBody(geometry, InfoOf(brush[i])).geometry, brush, i + 1)

(***************************************************************************)
(* ptc_get_vertices                                                        *)
(***************************************************************************)
\* ptc__cross_product has an empty body: the out parameter keeps its value
ptc__cross_product(out_result, a, b) == out_result

\* the loop that populates vertices[2..edge_count]; an entry no edge
\* supplies keeps what the caller's buffer held
RECURSIVE ptc__populate(_, _, _)
ptc__populate(m, f, vertices) ==
  IF Len(vertices) > Len(f.edges) THEN vertices
  ELSE LET cur  == vertices[Len(vertices)]
           prev == vertices[Len(vertices) - 1]
           e(j) == m.edges[f.edges[j] + 1]
           fwd(j) == e(j).vertices[1] = cur /\ e(j).vertices[2] # prev
           bwd(j) == e(j).vertices[2] = cur /\ e(j).vertices[1] # prev
           hits == {j \in 1..Len(f.edges) : fwd(j) \/ bwd(j)}
           j    == CHOOSE j \in hits : \A k \in hits : j <= k
       IN  ptc__populate(m, f,
             Append(vertices,
                    IF hits = {} THEN Indeterminate
                    ELSE IF fwd(j) THEN e(j).vertices[2] ELSE e(j).vertices[1]))

ptc_get_verticesBody(m, face, target_winding) ==
  LET f == m.faces[face + 1]
      first == m.edges[f.edges[1] + 1]
      vertices == ptc__populate(m, f, <<first.vertices[1], first.vertices[2]>>)
      normal(i) == ptc__cross_product(Vec3(0, 0, 0),
                                      m.vertices[vertices[i + 1] + 1].position,
                                      m.vertices[vertices[i + 2] + 1].position)
      sum[i \in 0..Len(f.edges)] ==
        IF i = 0 THEN Vec3(0, 0, 0) ELSE vec3_add(sum[i - 1], normal(i - 1))
      normal_accumulator == sum[Len(f.edges)]
      length_sqr == ptc__dot_product(normal_accumulator, normal_accumulator)
      normalized == [c \in 1..3 |->
                       IF length_sqr = R(0) THEN RDiv(normal_accumulator[c], R(0))
                       ELSE normal_accumulator[c]]
      dot == ptc__dot_product(f.normal, normalized)
      current_winding == IF RLt(R(0), dot) THEN "PTC_WINDING_CCW" ELSE "PTC_WINDING_CW"
  IN  [count |-> Len(f.edges) + 1,
       vertices |-> IF target_winding # "PTC_WINDING_ANY" /\ target_winding # current_winding
                      THEN [i \in 1..Len(vertices) |-> vertices[Len(vertices) + 1 - i]]
                    ELSE vertices]

(***************************************************************************)
(* reading the B-rep: the mesh builder over the brushes of an entity and   *)
(* ptc_get_vertices over the faces of a clipped mesh                       *)
(***************************************************************************)
\* most brushes of an entity
MaxBrushes == 2

\* a box, the box with one corner cut off, the box with one edge cut off,
\* a single half-space, no plane at all, and the tetrahedron
ModelBrushes ==
  {<<9, 10, 3, 11, 4, 12>>, <<9, 10, 3, 11, 4, 12, 15>>, <<9, 10, 3, 11, 4, 12, 16>>,
   <<1>>, <<>>, Tetrahedron}

ModelEntities ==
  UNION {[1..n -> ModelBrushes] : n \in 0..MaxBrushes}

\* the faces of the geometries in the order the two loops visit them
tb__face_order(g, cursor) ==
  LET faces == {p \in (1..Len(g)) \X (0..63) : p[2] < Len(g[p[1]].faces)}
      rank(p) == Cardinality({q \in faces : q[1] < p[1] \/ (q[1] = p[1] /\ q[2] < p[2])})
  IN  IF cursor >= Cardinality(faces) THEN <<0, 0>>
      ELSE CHOOSE p \in faces : rank(p) = cursor

ModelInit ==
  /\ impl \in {"tb", "ptc"}
  /\ heap = "zeroed"
  /\ applied = <<>>
  /\ mesh = (IF impl = "ptc" THEN PtcMesh(64)
             ELSE get_geometry_from_bounds(
                    Vec3(0, 0, 0), Vec3(WORLD_SIZE_tb, WORLD_SIZE_tb, WORLD_SIZE_tb)))
  /\ pre = mesh
  /\ results = <<>>
  /\ out = NoOutput
  /\ model \in (IF impl = "ptc" THEN {NoModel}
                ELSE {[kind |-> "tb", entity |-> entity,
                       g |-> [b \in 1..Len(entity) |->
                                tb_geometry_createBody(mesh, entity[b], 1)],
                       cursor |-> 0, meshes |-> <<>>, hung |-> FALSE,
                       last |-> <<0, 0>>, pass |-> [hung |-> FALSE],
                       done |-> FALSE, tb_meshes |-> <<>>] : entity \in ModelEntities})

\* one pass of the face loop of tb_model_create
tb_model_face ==
  /\ model.kind = "tb" /\ ~model.hung /\ ~model.done
  /\ tb__face_order(model.g, model.cursor)[1] > 0
  /\ LET next == tb__face_order(model.g, model.cursor)
         pass == tb_model_create_face(model.meshes, model.g[next[1]], next[2])
     IN  model' = IF pass.hung
                    THEN [model EXCEPT !.hung = TRUE, !.last = next, !.pass = [hung |-> TRUE]]
                  ELSE [model EXCEPT !.cursor = @ + 1, !.meshes = pass.meshes,
                                     !.last = next, !.pass = pass]
  /\ UNCHANGED <<impl, heap, mesh, pre, applied, results, out>>

\* the end of tb_model_create: the final mesh list
tb_model_create ==
  /\ model.kind = "tb" /\ ~model.hung /\ ~model.done
  /\ tb__face_order(model.g, model.cursor)[1] = 0
  /\ model' = [model EXCEPT
       !.done = TRUE,
       !.tb_meshes = [i \in 1..Len(model.meshes) |->
                        LET data == model.meshes[i]
                        IN  [texture_string |-> data.texture,
                             index_count |-> Len(data.indices),
                             indices |-> data.indices,
                             vertex_count |-> data.vertex_count,
                             vertex_positions |-> data.vertex_positions,
                             vertex_normals |-> data.vertex_normals,
                             vertex_tangents |-> data.vertex_tangents,
                             vertex_uvs |-> data.vertex_uvs]]]
  /\ UNCHANGED <<impl, heap, mesh, pre, applied, results, out>>

ptc_get_vertices(face, target_winding) ==
  /\ impl = "ptc"
  /\ model.kind \in {"none", "ptc"}
  /\ face < Len(mesh.faces)
  /\ Len(mesh.faces[face + 1].edges) > 0
  /\ model' = [kind |-> "ptc", face |-> face, target_winding |-> target_winding,
               result |-> ptc_get_verticesBody(mesh, face, target_winding)]
  /\ UNCHANGED <<impl, heap, mesh, pre, applied, results, out>>

\* the brushes of ModelBrushes are clipped plane by plane before the first
\* loop is asked for
ModelNext ==
  \/ tb_model_face
  \/ tb_model_create
  \/ \E id \in 1..Len(Planes) :
       /\ model.kind = "none"
       /\ \E brush \in ModelBrushes : IsPrefix(Append(applied, id), brush)
       /\ ptc_clip(id)
  \/ \E face \in 0..15 :
       \E w \in {"PTC_WINDING_ANY", "PTC_WINDING_CW", "PTC_WINDING_CCW"} :
         ptc_get_vertices(face, w)

ModelSpec == ModelInit /\ [][ModelNext]_vars

(***************************************************************************)
(* loop extraction                                                         *)
(***************************************************************************)
\* the vertex pairs of the edges of the face last read, in list order
LastPairs ==
  IF model.kind = "tb"
    THEN LET geometry == model.g[model.last[1]]
             face == geometry.faces[model.last[2] + 1]
         IN  [k \in 1..Len(face.edge_indices) |->
                geometry.edges[face.edge_indices[k] + 1].vertex_indices]
  ELSE LET f == mesh.faces[model.face + 1]
       IN  [k \in 1..Len(f.edges) |-> mesh.edges[f.edges[k] + 1].vertices]

\* the loop last extracted
LastLoop ==
  IF model.kind = "tb" THEN model.pass.sorted_vertex_indices ELSE model.result.vertices

FaceWasRead ==
  \/ model.kind = "ptc"
  \/ model.kind = "tb" /\ model.last # <<0, 0>> /\ ~model.hung

\* the edges form one closed cycle: at least three edges, each joining two
\* different vertices, no two joining the same two, every vertex on exactly
\* two edges, and no proper part of the vertices closed under the edges
IsSingleCycle(pairs) ==
  LET V == {pairs[k][s] : k \in 1..Len(pairs), s \in {1, 2}}
  IN  /\ Len(pairs) >= 3
      /\ \A k \in 1..Len(pairs) : pairs[k][1] # pairs[k][2]
      /\ Cardinality({{pairs[k][1], pairs[k][2]} : k \in 1..Len(pairs)}) = Len(pairs)
      /\ \A v \in V : Occurrences(pairs, v) = 2
      /\ \A S \in SUBSET V :
           (S # {} /\ S # V)
             => \E k \in 1..Len(pairs) : (pairs[k][1] \in S) # (pairs[k][2] \in S)

\* C13: for a face whose edges form a single closed cycle of k edges the
\* loop extractor (tb_model_create, ptc_get_vertices) ends and returns k+1
\* vertex indices that start at the first vertex of the face's first edge,
\* end where they start, are pairwise distinct in the first k places, and
\* whose consecutive pairs are the endpoint pairs of the k edges, each edge
\* once.
C13_LoopOfSingleCycle ==
  ((model.kind = "tb" /\ model.last # <<0, 0>>) \/ model.kind = "ptc")
    => (IsSingleCycle(LastPairs)
          => /\ FaceWasRead
             /\ LET k == Len(LastPairs)
                IN  /\ Len(LastLoop) = k + 1
                    /\ LastLoop[1] = LastPairs[1][1]
                    /\ LastLoop[k + 1] = LastLoop[1]
                    /\ Cardinality({LastLoop[i] : i \in 1..k}) = k
                    /\ {{LastLoop[i], LastLoop[i + 1]} : i \in 1..k}
                         = {{LastPairs[j][1], LastPairs[j][2]} : j \in 1..k})

C13_Witness ==
  /\ model.kind = "tb" /\ FaceWasRead
  /\ IsSingleCycle(LastPairs)
  /\ Len(LastPairs) = 5
  /\ Len(model.pass.sorted_vertex_indices) = 6

(***************************************************************************)
(* winding                                                                 *)
(***************************************************************************)
\* the geometry and the face of the last pass of the mesh builder
LastGeometry == model.g[model.last[1]]

LastFace == LastGeometry.faces[model.last[2] + 1]

\* the triangles the last pass emitted, as triples of mesh indices
LastTriangles ==
  LET indices == model.meshes[model.pass.mesh_index].indices
      fan == tb_fan_triangles(LastFace)
  IN  {<<indices[Len(indices) - 3 * t + 1], indices[Len(indices) - 3 * t + 2],
         indices[Len(indices) - 3 * t + 3]>> : t \in 1..fan}

\* the geometry vertex the last pass gave mesh index i
GeometryVertexOf(i) ==
  CHOOSE v \in 0..(Len(LastGeometry.vertices) - 1) : model.pass.vertex_map[v + 1] = i

\* ((b - a) x (c - a)) . n for the geometry positions of a triangle of the
\* last pass, the positions divided by WindingScale
Orientation(tri) ==
  LET p(i) == LET q == LastGeometry.vertices[GeometryVertexOf(tri[i]) + 1].position
              IN  <<RDiv(q[1], R(WindingScale)), RDiv(q[2], R(WindingScale)),
                    RDiv(q[3], R(WindingScale))>>
  IN  vec3_dot_product(
        vec3_cross_product(vec3_subtract(p(2), p(1)), vec3_subtract(p(3), p(1))),
        LastFace.normal_vector)

LoopSense(face) ==
  LET raw == ptc_get_verticesBody(mesh, face, "PTC_WINDING_ANY").vertices
      p(i) == mesh.vertices[raw[i] + 1].position
      sum[i \in 0..(Len(raw) - 1)] ==
        IF i = 0 THEN Vec3(0, 0, 0)
        ELSE vec3_add(sum[i - 1], vec3_cross_product(p(i), p(i + 1)))
  IN  vec3_dot_product(sum[Len(raw) - 1], mesh.faces[face + 1].normal)

\* ptc_get_vertices hands the loop of the face back reversed for this target
LoopReversed(face, target_winding) ==
  ptc_get_verticesBody(mesh, face, target_winding).vertices
    # ptc_get_verticesBody(mesh, face, "PTC_WINDING_ANY").vertices

\* C15: ptc_get_vertices with target winding CW or CCW reverses the loop it
\* extracted exactly when the sign of (sum of p_i x p_i+1) . n_face indicates
\* the other orientation: of two faces whose extracted loops run in opposite
\* senses about their normals exactly one is reversed.
C15_WindingFollowsNormal ==
  (model.kind = "ptc" /\ model.target_winding # "PTC_WINDING_ANY")
    => \A other \in 0..(Len(mesh.faces) - 1) :
         ( /\ Len(mesh.faces[other + 1].edges) > 0
           /\ \/ RLt(LoopSense(model.face), R(0)) /\ RLt(R(0), LoopSense(other))
              \/ RLt(R(0), LoopSense(model.face)) /\ RLt(LoopSense(other), R(0)) )
           => ((model.result.vertices
                  # ptc_get_verticesBody(mesh, model.face, "PTC_WINDING_ANY").vertices)
                 # LoopReversed(other, model.target_winding))

(***************************************************************************)
(* the triangle fan                                                        *)
(***************************************************************************)
\* C16: for a face whose loop has k distinct vertices v0..v(k-1) a pass of
\* the mesh builder appends exactly k vertices (v0..v(k-1), in loop order)
\* and exactly 3(k-2) indices to the batch of the face's texture and leaves
\* the other batches alone; the i-th triangle, i = 1..k-2, is
\* (v0, vi, vi+1), or (v0, vi+1, vi) when the loop is flagged reversed.
C16_FanOfFace ==
  [][(model.kind = "tb" /\ model'.kind = "tb" /\ model'.cursor = model.cursor + 1)
       => LET pass == model'.pass
              loop == pass.sorted_vertex_indices
              k == Len(loop) - 1
              geometry == model'.g[model'.last[1]]
              face == geometry.faces[model'.last[2] + 1]
              isNew == pass.mesh_index > Len(model.meshes)
              n0 == IF isNew THEN 0 ELSE model.meshes[pass.mesh_index].vertex_count
              i0 == IF isNew THEN 0 ELSE Len(model.meshes[pass.mesh_index].indices)
              after == model'.meshes[pass.mesh_index]
          IN  Cardinality({loop[j] : j \in 1..k}) = k
                => /\ after.texture = face.texture
                   /\ \A m \in 1..Len(model.meshes) :
                        m # pass.mesh_index => model'.meshes[m] = model.meshes[m]
                   /\ after.vertex_count = n0 + k
                   /\ \A j \in 0..(k - 1), c \in 1..3 :
                        after.vertex_positions[3 * (n0 + j) + c]
                          = round_to_int(geometry.vertices[loop[j + 1] + 1].position[c])
                   /\ Len(after.indices) = i0 + 3 * (k - 2)
                   /\ \A i \in 1..(k - 2) :
                        <<after.indices[i0 + 3 * (i - 1) + 1],
                          after.indices[i0 + 3 * (i - 1) + 2],
                          after.indices[i0 + 3 * (i - 1) + 3]>>
                          = IF pass.should_reverse_order
                              THEN <<n0, n0 + i + 1, n0 + i>>
                            ELSE <<n0, n0 + i, n0 + i + 1>>]_vars

C16_Witness ==
  /\ model.kind = "tb" /\ FaceWasRead
  /\ Len(model.pass.sorted_vertex_indices) = 6
  /\ ~model.pass.should_reverse_order
  /\ model.meshes[model.pass.mesh_index].vertex_count > 5

(***************************************************************************)
(* texture batches                                                         *)
(***************************************************************************)
\* the faces of the compacted B-reps of the entity, as pairs of geometry
\* (from 1) and face (from 0), and the face such a pair names
EntityFaces ==
  UNION {{<<b, f>> : f \in 0..(Len(model.g[b].faces) - 1)} : b \in 1..Len(model.g)}

EntityFace(gf) == model.g[gf[1]].faces[gf[2] + 1]

FacesTextured(texture) == {gf \in EntityFaces : EntityFace(gf).texture = texture}

RECURSIVE SumOver(_, _)
\* the sum of the values of a function over a finite set
SumOver(S, value) ==
  IF S = {} THEN 0
  ELSE LET x == CHOOSE x \in S : TRUE
       IN  value[x] + SumOver(S \ {x}, value)

\* C17: after the meshes of an entity are built the output holds exactly one
\* mesh per distinct texture occurring on the faces of all its compacted
\* B-reps: no two output meshes have the same texture, and the faces with
\* one texture, from whichever brush, are all emitted into the mesh of that
\* texture (its vertex and index counts are the sums over those faces).
C17_OneMeshPerTexture ==
  (model.kind = "tb" /\ model.done)
    => LET T == model.tb_meshes
           edges == [gf \in EntityFaces |-> Len(EntityFace(gf).edge_indices)]
           fans  == [gf \in EntityFaces |-> tb_fan_triangles(EntityFace(gf))]
       IN  /\ \A m, n \in 1..Len(T) : T[m].texture_string = T[n].texture_string => m = n
           /\ {T[m].texture_string : m \in 1..Len(T)}
                = {EntityFace(gf).texture : gf \in EntityFaces}
           /\ \A m \in 1..Len(T) :
                /\ T[m].vertex_count = SumOver(FacesTextured(T[m].texture_string), edges)
                /\ T[m].index_count = 3 * SumOver(FacesTextured(T[m].texture_string), fans)

C17_Witness ==
  /\ model.kind = "tb" /\ model.done
  /\ Len(model.tb_meshes) = 3
  /\ \E m \in 1..3 :
       /\ \E gf \in FacesTextured(model.tb_meshes[m].texture_string) : gf[1] = 1
       /\ \E gf \in FacesTextured(model.tb_meshes[m].texture_string) : gf[1] = 2

(***************************************************************************)
(* indices                                                                 *)
(***************************************************************************)
\* C18: in every batch of at most 65 535 vertices every index of the index
\* stream is smaller than the batch's vertex count, and every index a pass
\* wrote is the mesh index that the pass's vertex_map holds for a vertex of
\* the face, an entry the pass wrote (from the batch's vertex count before
\* the pass on) before the fan read it.
C18_IndicesNameBatchVertices ==
  (model.kind = "tb" /\ FaceWasRead)
    => /\ \A m \in 1..Len(model.meshes) :
            model.meshes[m].vertex_count <= 65535
              => \A j \in 1..Len(model.meshes[m].indices) :
                   /\ model.meshes[m].indices[j] >= 0
                   /\ model.meshes[m].indices[j] < model.meshes[m].vertex_count
       /\ LET k == Len(LastLoop) - 1
              data == model.meshes[model.pass.mesh_index]
          IN  data.vertex_count <= 65535
                => \A tri \in LastTriangles : \A c \in 1..3 :
                     \E i \in 1..k :
                       /\ model.pass.vertex_map[LastLoop[i] + 1] = tri[c]
                       /\ tri[c] >= data.vertex_count - k
                       /\ \E e \in 1..Len(LastFace.edge_indices) : \E s \in 1..2 :
                            LastGeometry.edges[LastFace.edge_indices[e] + 1].vertex_indices[s]
                              = LastLoop[i]

C18_Witness ==
  /\ model.kind = "tb" /\ FaceWasRead
  /\ model.last[1] = 2
  /\ Cardinality(LastTriangles) = 3
  /\ \E tri \in LastTriangles : \E c \in 1..3 :
       tri[c] >= Len(LastGeometry.vertices)

(***************************************************************************)
(* attribute streams                                                       *)
(***************************************************************************)
\* C19: after every face emission the four attribute streams of every batch
\* are parallel to its running vertex count n: 3n positions, 3n normals, 4n
\* tangent values of which every fourth is 0, and 2n UV values.
C19_StreamsParallel ==
  model.kind = "tb"
    => \A m \in 1..Len(model.meshes) :
         LET data == model.meshes[m]
             n == data.vertex_count
         IN  /\ Len(data.vertex_positions) = 3 * n
             /\ Len(data.vertex_normals) = 3 * n
             /\ Len(data.vertex_tangents) = 4 * n
             /\ \A v \in 1..n : data.vertex_tangents[4 * v] = R(0)
             /\ Len(data.vertex_uvs) = 2 * n

C19_Witness ==
  /\ model.kind = "tb" /\ FaceWasRead
  /\ Len(model.meshes) >= 2
  /\ \E m \in 1..Len(model.meshes) :
       /\ model.meshes[m].vertex_count >= 9
       /\ \E j \in 1..Len(model.meshes[m].vertex_tangents) :
            model.meshes[m].vertex_tangents[j] # R(0)

(***************************************************************************)
(* step one: classification                                                *)
(***************************************************************************)
\* C21: step one of ptc_clip and of clip_geometry classifies each vertex
\* visible at entry by d = n.p - c: it is made invisible if and only if
\* d >= EPSILON, it stays visible with distance d if and only if
\* d <= -EPSILON, and in every other case it stays visible with distance 0.
C21_ClassifiedByBand ==
  (impl \in {"ptc", "tb"} /\ applied # <<>>)
    => \A v \in VisibleVertices(pre) :
         LET d == ptc__plane_distance(LastPlane, pre.vertices[v + 1].position)
             after == mesh.vertices[v + 1]
         IN  /\ ~IsVisible(after) <=> RGeq(d, EPSILON)
             /\ (IsVisible(after) /\ after.distance = d /\ d # R(0))
                  <=> RGeq(RNeg(EPSILON), d)
             /\ (~RGeq(d, EPSILON) /\ ~RGeq(RNeg(EPSILON), d))
                  => (IsVisible(after) /\ after.distance = R(0))

(***************************************************************************)
(* step two: the split                                                     *)
(***************************************************************************)
\* the edges the last clip call split: visible at entry, the call went
\* on to step two, and exactly one endpoint is clipped when step two reads it
SplitByLast ==
  IF ~LastWasPartial THEN {}
  ELSE
  {e \in 0..(Len(pre.edges) - 1) :
     /\ IsVisible(pre.edges[e + 1])
     /\ IsVisible(mesh.vertices[EdgeVertices(pre.edges[e + 1])[1] + 1])
          # IsVisible(mesh.vertices[EdgeVertices(pre.edges[e + 1])[2] + 1])}

Between(x, a, b) ==
  \/ RGeq(x, a) /\ RGeq(b, x)
  \/ RGeq(x, b) /\ RGeq(a, x)

\* C22: for every edge step two of ptc_clip splits, d0 - d1 is not zero and
\* t = d0 / (d0 - d1) satisfies 0 <= t <= 1, so that the new vertex lies on
\* the segment between the two endpoints of the edge.
C22_SplitWithinEdge ==
  (impl = "ptc" /\ applied # <<>>)
    => \A e \in SplitByLast :
         LET v0 == mesh.vertices[pre.edges[e + 1].vertices[1] + 1]
             v1 == mesh.vertices[pre.edges[e + 1].vertices[2] + 1]
             t  == RDiv(v0.distance, RSub(v0.distance, v1.distance))
             slot == IF v0.is_clipped THEN 1 ELSE 2
             new == mesh.vertices[mesh.edges[e + 1].vertices[slot] + 1]
         IN  /\ IsFinite(RSub(v0.distance, v1.distance))
             /\ RSub(v0.distance, v1.distance) # R(0)
             /\ RGeq(t, R(0)) /\ RGeq(R(1), t)
             /\ \A c \in 1..3 : Between(new.position[c], v0.position[c], v1.position[c])

\* C23: when step two of ptc_clip or clip_geometry splits an edge with
\* exactly one clipped endpoint, one new vertex is appended for it, the slot
\* of the edge that held the clipped endpoint holds the new vertex's index,
\* and the slot of the kept endpoint, both face indices of the edge and the
\* membership of the edge in the edge lists of both faces are unchanged.
C23_SplitReplacesClippedSlot ==
  (impl \in {"ptc", "tb"} /\ applied # <<>>)
    => LET split == SplitByLast IN
       /\ Len(mesh.vertices) = Len(pre.vertices) + Cardinality(split)
       /\ \A e \in split :
            LET before == EdgeVertices(pre.edges[e + 1])
                after  == EdgeVertices(mesh.edges[e + 1])
                slot   == IF IsVisible(mesh.vertices[before[1] + 1]) THEN 2 ELSE 1
            IN  /\ after[slot] >= Len(pre.vertices) /\ after[slot] < Len(mesh.vertices)
                /\ \A o \in split : o # e
                     => EdgeVertices(mesh.edges[o + 1])[1] # after[slot]
                        /\ EdgeVertices(mesh.edges[o + 1])[2] # after[slot]
                /\ after[3 - slot] = before[3 - slot]
                /\ EdgeFaces(mesh.edges[e + 1]) = EdgeFaces(pre.edges[e + 1])
                /\ \A s \in 1..2 :
                     LET f == EdgeFaces(pre.edges[e + 1])[s]
                     IN  Listed(FaceEdges(mesh.faces[f + 1]), e)
                           <=> Listed(FaceEdges(pre.faces[f + 1]), e)

C23_Witness ==
  /\ impl \in {"ptc", "tb"} /\ Len(applied) >= 2
  /\ Cardinality(SplitByLast) >= 4
  /\ \E e \in SplitByLast :
       /\ IsVisible(mesh.vertices[EdgeVertices(pre.edges[e + 1])[1] + 1])
       /\ Listed(FaceEdges(mesh.faces[EdgeFaces(pre.edges[e + 1])[1] + 1]), e)
  /\ \E e \in SplitByLast :
       ~IsVisible(mesh.vertices[EdgeVertices(pre.edges[e + 1])[1] + 1])

(***************************************************************************)
(* worked examples                                                         *)
(***************************************************************************)
\* C24: the seed cube of half-extent 10 000 clipped by the one plane
\* n = (1,0,0), c = 0 and compacted has 8 vertices, 12 edges and 6 faces:
\* the four seed vertices with x = -10 000, where they were, and four new
\* vertices at x = 0 with y, z = +-10 000.
C24_HalfCube ==
  (impl = "poe" /\ applied = <<1>> /\ out.done)
    => /\ Len(out.vertices) = 8 /\ Len(out.edges) = 12 /\ Len(out.faces) = 6
       /\ \A i \in 1..8 :
            pre.vertices[i].position[1] = R(-10000)
              => \E k \in 1..Len(out.vertices) :
                   out.vertices[k].position = pre.vertices[i].position
       /\ {out.vertices[k].position : k \in 1..Len(out.vertices)}
            = {Vec3(x, y, z) : x \in {-10000, 0}, y \in {-10000, 10000}, z \in {-10000, 10000}}

C24_Witness ==
  /\ impl = "poe" /\ applied = <<1>> /\ out.done
  /\ Planes[1] = Plane(Vec3(1, 0, 0), R(0))
  /\ Len(pre.vertices) = 8
  /\ \E k \in 1..Len(out.vertices) : out.vertices[k].position[1] = R(0)

\* the triangles tb_model_create put out, over all meshes
TrianglesOut ==
  SumOver(1..Len(model.tb_meshes),
          [m \in 1..Len(model.tb_meshes) |-> model.tb_meshes[m].index_count]) \div 3

\* C25: the seed cube clipped in sequence by the four planes of the
\* tetrahedron with the vertices (0,0,0), (1,0,0), (0,1,0), (0,0,1) and
\* compacted has 4 vertices, 6 edges and 4 faces, and the mesh builder emits
\* 4 triangles for it.
C25_Tetrahedron ==
  (model.kind = "tb" /\ model.entity = <<Tetrahedron>>)
    => /\ Len(model.g[1].vertices) = 4
       /\ Len(model.g[1].edges) = 6
       /\ Len(model.g[1].faces) = 4
       /\ model.done => TrianglesOut = 4

C25_Witness ==
  /\ model.kind = "tb" /\ model.done /\ model.entity = <<Tetrahedron>>
  /\ {model.g[1].vertices[k].position : k \in 1..Len(model.g[1].vertices)}
       = {Vec3(0, 0, 0), Vec3(1, 0, 0), Vec3(0, 1, 0), Vec3(0, 0, 1)}
  /\ TrianglesOut > 0

\* C26: for a brush with no planes the compacted B-rep has 8 vertices, 12
\* edges and 6 faces, and the mesh builder emits 12 triangles in total.
C26_BrushWithoutPlanes ==
  (model.kind = "tb" /\ model.entity = <<<<>>>>)
    => /\ Len(model.g[1].vertices) = 8
       /\ Len(model.g[1].edges) = 12
       /\ Len(model.g[1].faces) = 6
       /\ model.done => TrianglesOut = 12

C26_Witness ==
  /\ model.kind = "tb" /\ model.done /\ model.entity = <<<<>>>>
  /\ Len(model.tb_meshes) = 1
  /\ model.tb_meshes[1].vertex_count = 24

(***************************************************************************)
(* P7: clipping by the same plane again                                    *)
(***************************************************************************)
\* the last two ptc_clip calls were given the same plane
SamePlaneAgain ==
  /\ impl = "ptc"
  /\ Len(applied) >= 2
  /\ applied[Len(applied)] = applied[Len(applied) - 1]

\* C27: a second ptc_clip by the plane of the call before it leaves the
\* B-rep as that call left it: no visible vertex has a distance of EPSILON
\* or more, and the visibility flags, the vertex and face indices of the
\* edges, the edge lists of the faces and the three counts are unchanged.
C27_SecondClipChangesNothing ==
  SamePlaneAgain
    => /\ \A v \in VisibleVertices(pre) :
            ~RGeq(mesh.vertices[v + 1].distance, EPSILON)
       /\ Len(mesh.vertices) = Len(pre.vertices)
       /\ Len(mesh.edges) = Len(pre.edges)
       /\ Len(mesh.faces) = Len(pre.faces)
       /\ ptc__is_clipped(mesh.vertices) = ptc__is_clipped(pre.vertices)
       /\ \A e \in 1..Len(pre.edges) :
            /\ mesh.edges[e].is_clipped = pre.edges[e].is_clipped
            /\ mesh.edges[e].vertices = pre.edges[e].vertices
            /\ mesh.edges[e].faces = pre.edges[e].faces
       /\ \A f \in 1..Len(pre.faces) :
            /\ mesh.faces[f].is_clipped = pre.faces[f].is_clipped
            /\ mesh.faces[f].edges = pre.faces[f].edges

C27_Witness ==
  /\ SamePlaneAgain
  /\ results[Len(results) - 1] = "RESULT_PARTIAL_CLIPPING"
  /\ results[Len(results)] = "RESULT_NO_CLIPPING"
  /\ Len(applied) = 3 /\ applied[1] # applied[2]
  /\ \E v \in VisibleVertices(pre) : mesh.vertices[v + 1].distance = R(0)

(***************************************************************************)
(* the temp arena of Clip                                                  *)
(***************************************************************************)
\* C28: every exit path of Clip, the early returns taken when no vertex or
\* every vertex is clipped included, resets the temp arena to the mark
\* recorded on entry: the used size of the arena after Clip is its used
\* size before the call.
C28_ClipResetsArena ==
  (impl = "poe" /\ applied # <<>> /\ ~mesh.aborted)
    => mesh.temp = pre.temp

(***************************************************************************)
(* the store between clips                                                 *)
(***************************************************************************)
\* C29: over any sequence of ptc_clip calls on one mesh the vertex, edge and
\* face arrays never get shorter, an entity once marked clipped is never
\* made visible again and keeps its slot, and the position of a vertex that
\* exists is never modified.
C29_StoreOnlyGrows ==
  [][impl = "ptc"
       => /\ Len(mesh'.vertices) >= Len(mesh.vertices)
          /\ Len(mesh'.edges) >= Len(mesh.edges)
          /\ Len(mesh'.faces) >= Len(mesh.faces)
          /\ \A i \in 1..Len(mesh.vertices) :
               /\ mesh'.vertices[i].position = mesh.vertices[i].position
               /\ mesh.vertices[i].is_clipped => mesh'.vertices[i].is_clipped
          /\ \A i \in 1..Len(mesh.edges) :
               mesh.edges[i].is_clipped
                 => /\ mesh'.edges[i].is_clipped
                    /\ mesh'.edges[i].vertices = mesh.edges[i].vertices
                    /\ mesh'.edges[i].faces = mesh.edges[i].faces
          /\ \A i \in 1..Len(mesh.faces) :
               mesh.faces[i].is_clipped
                 => /\ mesh'.faces[i].is_clipped
                    /\ mesh'.faces[i].normal = mesh.faces[i].normal]_vars

C29_Witness ==
  /\ impl = "ptc" /\ Len(applied) = 3
  /\ Len(mesh.vertices) > Len(pre.vertices)
  /\ Len(pre.vertices) > 8
  /\ \E i \in 1..Len(pre.vertices) : pre.vertices[i].is_clipped
  /\ \E i \in 1..Len(pre.edges) : pre.edges[i].is_clipped
  /\ \E i \in 1..Len(pre.faces) : pre.faces[i].is_clipped

(***************************************************************************)
(* the map parser of ptb_map.h: ptb_load_map_source                        *)
(***************************************************************************)
\* most lines of a map source
MaxLines == 7

\* A source line is named by its first character after the leading blanks:
\* a comment, an opening brace, a closing brace, a brush face, a property,
\* and a blank line for every other line.
ptbm__identify_line(head) ==
  CASE head = "/"  -> "PTBM__LINE_COMMENT"
    [] head = "{"  -> "PTBM__LINE_SCOPE_START"
    [] head = "}"  -> "PTBM__LINE_SCOPE_END"
    [] head = "("  -> "PTBM__LINE_BRUSH_FACE"
    [] head = "\"" -> "PTBM__LINE_PROPERTY"
    [] OTHER       -> "PTBM__LINE_INVALID"

\* the characters of a line of each kind, its newline included:
\*   // entity 0
\*   {
\*   }
\*   ( -64 -64 -16 ) ( -64 -63 -16 ) ( -64 -64 -15 ) __TB_empty [ 0 -1 0 0 ] [ 0 0 -1 0 ] 0 1 1
\*   "classname" "worldspawn"
\* and the empty line
LineLength(head) ==
  CASE head = "/"  -> 12
    [] head = "{"  -> 2
    [] head = "}"  -> 2
    [] head = "("  -> 91
    [] head = "\"" -> 25
    [] OTHER       -> 1

\* sizeof on a build with 8-byte pointers, 4-byte int and PTB_REAL float
ptb__sizeof(type) ==
  CASE type = "ptb_entity"     -> 40
    [] type = "ptb_brush"      -> 16
    [] type = "ptb_brush_face" -> 72
    [] type = "char*"          -> 8

\* The arena: the head of every chunk in list order (the current chunk is
\* the last one), and whether a PTB_ASSERT of ptb__arena_alloc has failed.
ptb__add_arena_chunk(arena) == [arena EXCEPT !.chunk_list = Append(@, 0)]

ptb__init_arena(chunk_capacity) ==
  ptb__add_arena_chunk(
    [chunk_capacity |-> chunk_capacity, chunk_list |-> <<>>, asserted |-> FALSE])

ptb__arena_alloc(arena, bytes) ==
  IF arena.asserted \/ ~(bytes < arena.chunk_capacity)
    THEN [arena EXCEPT !.asserted = TRUE]
  ELSE LET a == IF arena.chunk_list[Len(arena.chunk_list)] + bytes > arena.chunk_capacity
                  THEN ptb__add_arena_chunk(arena)
                ELSE arena
       IN  [a EXCEPT !.chunk_list[Len(a.chunk_list)] = @ + bytes]

\* the null pointer of the parser's node lists
NULL == [null |-> TRUE]

\* One pass of the line loop of ptb_load_map_source over a line starting
\* with `head`; `line` numbers the line and stands for the text of the
\* property or brush face it holds.  A failed PTB_ASSERT ends the run.
ptbm__line(p, head, line) ==
  LET type == ptbm__identify_line(head)
      fail == [p EXCEPT !.asserted = TRUE]
  IN  CASE type \in {"PTBM__LINE_INVALID", "PTBM__LINE_COMMENT"} -> p
        [] type = "PTBM__LINE_SCOPE_START" ->
             IF p.scope = "PTBM__SCOPE_BRUSH" THEN fail
             ELSE IF p.scope = "PTBM__SCOPE_MAP"
               THEN [p EXCEPT !.scope = "PTBM__SCOPE_ENTITY",
                              !.scoped_entity =
                                 [brush_list |-> <<>>, brush_list_length |-> 0,
                                  property_list |-> <<>>, property_list_length |-> 0]]
             ELSE [p EXCEPT !.scope = "PTBM__SCOPE_BRUSH",
                            !.scoped_brush = [face_list |-> <<>>, face_list_length |-> 0]]
        [] type = "PTBM__LINE_SCOPE_END" ->
             IF p.scope = "PTBM__SCOPE_MAP" THEN fail
             ELSE IF p.scope = "PTBM__SCOPE_ENTITY"
               THEN IF p.scoped_entity = NULL THEN fail
                    ELSE [p EXCEPT !.scope = "PTBM__SCOPE_MAP",
                                   !.entity_list = Append(@, p.scoped_entity),
                                   !.entity_list_length = @ + 1,
                                   !.scoped_entity = NULL]
             ELSE IF p.scoped_entity = NULL \/ p.scoped_brush = NULL THEN fail
                  ELSE [p EXCEPT !.scope = "PTBM__SCOPE_ENTITY",
                                 !.scoped_entity.brush_list = Append(@, p.scoped_brush),
                                 !.scoped_entity.brush_list_length = @ + 1,
                                 !.scoped_brush = NULL]
        [] type = "PTBM__LINE_PROPERTY" ->
             IF p.scope # "PTBM__SCOPE_ENTITY" THEN fail
             ELSE [p EXCEPT !.scoped_entity.property_list =
                               Append(@, [key |-> line, value |-> line]),
                            !.scoped_entity.property_list_length = @ + 1]
        [] type = "PTBM__LINE_BRUSH_FACE" ->
             IF p.scope # "PTBM__SCOPE_BRUSH" \/ p.scoped_brush = NULL THEN fail
             ELSE [p EXCEPT !.scoped_brush.face_list = Append(@, line),
                            !.scoped_brush.face_list_length = @ + 1]

\* What an int of freshly allocated arena memory holds: ptb__add_arena_chunk
\* takes the chunk's data from PTB_MALLOC and nothing clears it.
ptb__stale_int(h, slot) == IF StaleFlag(h, slot) THEN -1 ELSE 0

\* array[count++] = item for every item of a list, from the count the
\* array's owner starts with: the slots written, by array index
ptbm__copy_list(list, count) ==
  [i \in count..(count + Len(list) - 1) |-> list[i - count + 1]]

\* The body of the loop over entity_list: brush_count and property_count,
\* and face_count in the loop over face_list, are never set before they
\* count.
ptbm__copy_entity(entity_list, h, slot) ==
  LET brush_count    == ptb__stale_int(h, slot)
      property_count == ptb__stale_int(h, slot)
      brushes  == [b \in 1..Len(entity_list.brush_list) |->
                     LET brush_list == entity_list.brush_list[b]
                         face_count == ptb__stale_int(h, brush_count + b - 1)
                     IN  [faces      |-> ptbm__copy_list(brush_list.face_list, face_count),
                          face_count |-> face_count + Len(brush_list.face_list)]]
      keys     == [k \in 1..Len(entity_list.property_list) |->
                     entity_list.property_list[k].key]
      values   == [k \in 1..Len(entity_list.property_list) |->
                     entity_list.property_list[k].value]
  IN  [brushes         |-> ptbm__copy_list(brushes, brush_count),
       brush_count     |-> brush_count + Len(brushes),
       property_keys   |-> ptbm__copy_list(keys, property_count),
       property_values |-> ptbm__copy_list(values, property_count),
       property_count  |-> property_count + Len(keys)]

\* the sizes ptb_load_map_source asks the arena for, in order
RECURSIVE ptbm__sizes(_, _)
ptbm__sizes(entity_list, first) ==
  IF first > Len(entity_list) THEN <<>>
  ELSE LET node == entity_list[first]
       IN  <<ptb__sizeof("ptb_brush") * node.brush_list_length>>
           \o [b \in 1..Len(node.brush_list) |->
                 ptb__sizeof("ptb_brush_face") * node.brush_list[b].face_list_length]
           \o <<ptb__sizeof("char*") * node.property_list_length,
                ptb__sizeof("char*") * node.property_list_length>>
           \o ptbm__sizes(entity_list, first + 1)

RECURSIVE ptbm__allocate(_, _, _)
ptbm__allocate(arena, sizes, first) ==
  IF first > Len(sizes) THEN arena
  ELSE ptbm__allocate(ptb__arena_alloc(arena, sizes[first]), sizes, first + 1)

\* The second half of ptb_load_map_source: the lists are packed into arrays
\* of the arena.  An entity left open at the end of the source is in no list.
ptbm__compact(p, source_len, h) ==
  LET sizes == <<ptb__sizeof("ptb_entity") * p.entity_list_length>>
               \o ptbm__sizes(p.entity_list, 1)
      arena == ptbm__allocate(ptb__init_arena(source_len), sizes, 1)
  IN  IF arena.asserted THEN [p EXCEPT !.asserted = TRUE]
      ELSE [p EXCEPT !.returned = TRUE,
                     !.map = [entities |-> [e \in 1..Len(p.entity_list) |->
                                              ptbm__copy_entity(p.entity_list[e], h, e - 1)],
                              entity_count |-> Len(p.entity_list),
                              _arena |-> arena]]

MapInit ==
  /\ impl = "ptb"
  /\ heap \in {"zeroed", "filled", "mixed"}
  /\ mesh = <<>>
  /\ pre = <<>>
  /\ applied = <<>>
  /\ results = <<>>
  /\ out = NoOutput
  /\ model = [kind |-> "ptb", lines |-> <<>>, scope |-> "PTBM__SCOPE_MAP",
              entity_list |-> <<>>, entity_list_length |-> 0,
              scoped_entity |-> NULL, scoped_brush |-> NULL,
              asserted |-> FALSE, returned |-> FALSE, map |-> NULL, freed |-> NULL]

\* the line loop reads the next line of the source
ptb_load_map_sourceLine(head) ==
  /\ model.kind = "ptb" /\ ~model.asserted /\ ~model.returned
  /\ Len(model.lines) < MaxLines
  /\ model' = [ptbm__line(model, head, Len(model.lines) + 1)
                 EXCEPT !.lines = Append(model.lines, head)]
  /\ UNCHANGED <<impl, heap, mesh, pre, applied, results, out>>

\* The source ends: the loop's last pass sees the terminator, a line of no
\* kind, and the lists are compacted and the map returned.
ptb_load_map_source ==
  /\ model.kind = "ptb" /\ ~model.asserted /\ ~model.returned
  /\ LET source_len == SumOver(1..Len(model.lines),
                                [i \in 1..Len(model.lines) |-> LineLength(model.lines[i])])
     IN  model' = ptbm__compact(model, source_len, heap)
  /\ UNCHANGED <<impl, heap, mesh, pre, applied, results, out>>

\* The while loop of ptb__free_arena from chunk on, chunks numbered from 1
\* in list order and NULL being 0.  f counts the PTB_FREE calls on every
\* data block and every chunk record and collects the records that are read
\* after their PTB_FREE.  What such a read yields is not defined: the
\* fields as they were (intact), or cleared memory, a NULL data and a NULL
\* next.
RECURSIVE ptb__free_arena(_, _, _, _)
ptb__free_arena(arena, f, chunk, intact) ==
  IF chunk = 0 THEN f
  ELSE LET stale == f.chunk_freed[chunk] > 0
           data  == IF stale /\ ~intact THEN 0 ELSE chunk
           next  == IF (stale /\ ~intact) \/ chunk = Len(arena.chunk_list) THEN 0
                    ELSE chunk + 1
       IN  ptb__free_arena(
             arena,
             [read_freed |-> IF stale THEN f.read_freed \cup {chunk} ELSE f.read_freed,
              data_freed |-> [k \in DOMAIN f.data_freed |->
                                f.data_freed[k] + (IF k = data THEN 1 ELSE 0)],
              chunk_freed |-> [k \in DOMAIN f.chunk_freed |->
                                 f.chunk_freed[k] + (IF k = next THEN 1 ELSE 0)]],
             next, intact)

\* ptb_free_map(map) on the map that ptb_load_map_source returned
ptb_free_map(intact) ==
  /\ model.kind = "ptb" /\ model.returned /\ model.freed = NULL
  /\ LET arena == model.map._arena
     IN  model' = [model EXCEPT !.freed =
           ptb__free_arena(arena,
                           [read_freed |-> {},
                            data_freed |-> [k \in 1..Len(arena.chunk_list) |-> 0],
                            chunk_freed |-> [k \in 1..Len(arena.chunk_list) |-> 0]],
                           1, intact)]
  /\ UNCHANGED <<impl, heap, mesh, pre, applied, results, out>>

MapNext ==
  \/ \E head \in {"/", "{", "}", "(", "\"", "\n"} : ptb_load_map_sourceLine(head)
  \/ ptb_load_map_source
  \/ \E intact \in BOOLEAN : ptb_free_map(intact)

MapSpec == MapInit /\ [][MapNext]_vars

(***************************************************************************)
(* C30: the counts of a loaded map                                         *)
(***************************************************************************)
\* the lines of a well-formed source: every brace closes what the last open
\* brace opened, properties stand in entities and faces in brushes, which
\* is what the parser's assertions accept, and no block is left open
WellFormedSource ==
  model.kind = "ptb" /\ model.returned /\ model.scope = "PTBM__SCOPE_MAP"

\* the items the documented loop `for (i = 0; i < count; i++) array[i]` visits
Visited(array, count) ==
  [i \in 1..count |-> IF (i - 1) \in DOMAIN array THEN array[i - 1] ELSE NULL]

\* the entity blocks of the source, in order: each the line numbers of its
\* property lines and, per brush block, the line numbers of its face lines
RECURSIVE SourceBlocks(_, _, _, _)
SourceBlocks(lines, first, depth, blocks) ==
  IF first > Len(lines) THEN blocks
  ELSE LET head == lines[first]
           n    == Len(blocks)
       IN  CASE head = "{" /\ depth = 0 ->
                  SourceBlocks(lines, first + 1, 1,
                               Append(blocks, [properties |-> <<>>, brushes |-> <<>>]))
             [] head = "{" /\ depth = 1 ->
                  SourceBlocks(lines, first + 1, 2,
                               [blocks EXCEPT ![n].brushes = Append(@, <<>>)])
             [] head = "}" /\ depth > 0 ->
                  SourceBlocks(lines, first + 1, depth - 1, blocks)
             [] head = "\"" /\ depth = 1 ->
                  SourceBlocks(lines, first + 1, depth,
                               [blocks EXCEPT ![n].properties = Append(@, first)])
             [] head = "(" /\ depth = 2 ->
                  SourceBlocks(lines, first + 1, depth,
                               [blocks EXCEPT ![n].brushes[Len(blocks[n].brushes)] =
                                                 Append(@, first)])
             [] OTHER -> SourceBlocks(lines, first + 1, depth, blocks)

\* C30: after ptb_load_map_source on a well-formed source, entity_count is
\* the number of entity blocks and, entity by entity in source order,
\* property_count, brush_count and each brush's face_count are the numbers
\* of property lines, brush blocks and face lines, so that the documented
\* loops over the counts visit exactly the parsed items.
C30_CountsMatchSource ==
  WellFormedSource =>
    LET blocks == SourceBlocks(model.lines, 1, 0, <<>>)
        map    == model.map
    IN  /\ map.entity_count = Len(blocks)
        /\ \A e \in 1..Len(blocks) :
             LET entity == map.entities[e]
             IN  /\ entity.property_count = Len(blocks[e].properties)
                 /\ Visited(entity.property_keys, entity.property_count) = blocks[e].properties
                 /\ Visited(entity.property_values, entity.property_count) = blocks[e].properties
                 /\ entity.brush_count = Len(blocks[e].brushes)
                 /\ \A b \in 1..Len(blocks[e].brushes) :
                      LET brush == entity.brushes[b - 1]
                      IN  /\ brush.face_count = Len(blocks[e].brushes[b])
                          /\ Visited(brush.faces, brush.face_count) = blocks[e].brushes[b]

(***************************************************************************)
(* C31: what an append leaves in the new slot                              *)
(***************************************************************************)
\* C31: every vertex an edge split appends and every closing edge Phase 3
\* appends is visible (is_clipped = 0) once appended, whatever the storage
\* slot held before.  Nothing in ptc_clip touches the flag of an element it
\* has appended, so the elements past the counts before the call show it.
C31_AppendedVisible ==
  (impl = "ptc" /\ applied # <<>>) =>
    /\ \A v \in (Len(pre.vertices) + 1)..Len(mesh.vertices) : ~mesh.vertices[v].is_clipped
    /\ \A e \in (Len(pre.edges) + 1)..Len(mesh.edges) : ~mesh.edges[e].is_clipped

(***************************************************************************)
(* C32: appends and the allocated storage                                  *)
(***************************************************************************)
\* C32: in a mesh whose arrays were allocated with their recorded capacity,
\* every append of a vertex, edge or face returns the previous count as the
\* new index, leaves the earlier elements as they were, and writes inside
\* the allocated storage: the allocation holds at least count elements.
C32_AppendInsideStorage ==
  impl = "ptc" =>
    /\ Len(mesh.vertices) <= mesh.vertex_alloc
    /\ Len(mesh.edges) <= mesh.edge_alloc
    /\ Len(mesh.faces) <= mesh.face_alloc
    /\ LET m == ptc__add_vertex(mesh, PtcMin)
       IN  /\ Len(m.vertices) - 1 = Len(mesh.vertices)
           /\ SubSeq(m.vertices, 1, Len(mesh.vertices)) = mesh.vertices
    /\ LET m == ptc__add_edge(mesh, 0, 1)
       IN  /\ Len(m.edges) - 1 = Len(mesh.edges)
           /\ SubSeq(m.edges, 1, Len(mesh.edges)) = mesh.edges

(***************************************************************************)
(* C33: the live counts of the ClippingGeometry                            *)
(***************************************************************************)
\* C33: after CreateClippingGeometry and after every Clip call,
\* visibleVertexCount, visibleEdgeCount and visibleFaceCount are the
\* numbers of vertices, edges and faces whose isVisible flag is set.
C33_LiveCountsExact ==
  impl = "poe" =>
    /\ mesh.visibleVertexCount =
         Cardinality({v \in 1..Len(mesh.vertices) : mesh.vertices[v].isVisible})
    /\ mesh.visibleEdgeCount =
         Cardinality({e \in 1..Len(mesh.edges) : mesh.edges[e].isVisible})
    /\ mesh.visibleFaceCount =
         Cardinality({f \in 1..Len(mesh.faces) : mesh.faces[f].isVisible})

\* a Clip that culled an edge and kept part of the solid
C33_Witness ==
  /\ impl = "poe" /\ LastWasPartial /\ ~mesh.aborted
  /\ \E e \in 1..Len(pre.edges) : pre.edges[e].isVisible /\ ~mesh.edges[e].isVisible
  /\ mesh.visibleVertexCount < Len(mesh.vertices)

(***************************************************************************)
(* the map parser of pt_map.h: ptm_load_source                             *)
(***************************************************************************)
\* The characters of the strings of the sources below, as character codes.
Text(data) ==
  CASE data = "classname"  -> <<99, 108, 97, 115, 115, 110, 97, 109, 101>>
    [] data = "worldspawn" -> <<119, 111, 114, 108, 100, 115, 112, 97, 119, 110>>
    [] data = "func_group" -> <<102, 117, 110, 99, 95, 103, 114, 111, 117, 112>>
    [] data = "costarring" -> <<99, 111, 115, 116, 97, 114, 114, 105, 110, 103>>
    [] data = "liquid"     -> <<108, 105, 113, 117, 105, 100>>
    [] data = "0"          -> <<48>>
    [] data = "_tb_id"     -> <<95, 116, 98, 95, 105, 100>>
    [] data = "__TB_empty" -> <<95, 95, 84, 66, 95, 101, 109, 112, 116, 121>>

\* a ^ b on the low `bits` bits
RECURSIVE ptm__xor(_, _, _)
ptm__xor(a, b, bits) ==
  IF bits = 0 THEN 0
  ELSE ((a + b) % 2) + 2 * ptm__xor(a \div 2, b \div 2, bits - 1)

\* FNV-1a on unsigned int: the 32 bits are kept as <<high 16, low 16>>, and
\* hash *= 16777619 is computed modulo 2^32 with 16777619 = 2^24 + 403.
RECURSIVE ptm__create_hash_fnv32From(_, _, _)
ptm__create_hash_fnv32From(hash, data, i) ==
  IF i > Len(data) THEN hash
  ELSE LET lo   == 256 * (hash[2] \div 256) + ptm__xor(hash[2] % 256, data[i], 8)
           low  == lo * 403
           high == hash[1] * 403 + (low \div 65536) + 256 * (lo % 256)
       IN  ptm__create_hash_fnv32From(<<high % 65536, low % 65536>>, data, i + 1)

ptm__create_hash_fnv32(data) == ptm__create_hash_fnv32From(<<33052, 40389>>, data, 1)

\* PTM_CREATE_HASH of the strings of the sources, hash_classname,
\* hash_worldspawn and hash_func_group among them
PTM_CREATE_HASH ==
  [data \in {"classname", "worldspawn", "func_group", "costarring", "liquid",
             "0", "_tb_id", "__TB_empty"} |-> ptm__create_hash_fnv32(Text(data))]

\* the two braces taken for each other
ptm__identify_lineSwapped(head) ==
  CASE head = "/"  -> "PTM_LINE_COMMENT"
    [] head = "{"  -> "PTM_LINE_SCOPE_END"
    [] head = "}"  -> "PTM_LINE_SCOPE_START"
    [] head = "("  -> "PTM_LINE_BRUSH_FACE"
    [] head = "\"" -> "PTM_LINE_PROPERTY"
    [] OTHER       -> "PTM_LINE_INVALID"

ptm__identify_line(head) ==
  CASE head = "/"  -> "PTM_LINE_COMMENT"
    [] head = "{"  -> "PTM_LINE_SCOPE_START"
    [] head = "}"  -> "PTM_LINE_SCOPE_END"
    [] head = "("  -> "PTM_LINE_BRUSH_FACE"
    [] head = "\"" -> "PTM_LINE_PROPERTY"
    [] OTHER       -> "PTM_LINE_INVALID"

\* sizeof on a build with 8-byte pointers, 4-byte unsigned int and PTM_REAL float
ptm__sizeof(type) ==
  CASE type = "ptm_map"           -> 32
    [] type = "ptm_entity"        -> 40
    [] type = "ptm_brush"         -> 16
    [] type = "ptm_property"      -> 40
    [] type = "ptm_brush_face"    -> 80
    [] type = "ptm_entity_class"  -> 32
    [] type = "ptm_cached_string" -> 24

\* The string between the delimiters, through the cache (newest first):
\* the string handed back, the cache afterwards and the bytes pushed.
ptm__consume_string(cache, data) ==
  LET hash == PTM_CREATE_HASH[data]
      hits == {k \in 1..Len(cache) : cache[k].hash = hash}
  IN  IF hits # {}
        THEN [content |-> cache[CHOOSE k \in hits : \A j \in hits : k <= j],
              cache |-> cache, bytes |-> 0]
      ELSE [content |-> [data |-> data, hash |-> hash],
            cache |-> <<[data |-> data, hash |-> hash]>> \o cache,
            bytes |-> Len(Text(data)) + 1 + ptm__sizeof("ptm_cached_string")]

\* What the class_name of a fresh ptm_entity holds: the arena's data comes
\* from malloc and SCOPE_START sets next, brushes and properties only.
ptm__stale_string(h, slot) ==
  IF StaleFlag(h, slot) THEN [data |-> "0xFFFFFFFFFFFFFFFF", hash |-> <<65535, 65535>>]
  ELSE [data |-> "NULL", hash |-> <<0, 0>>]

\* the end of an entity block: where the scoped entity is stored
ptm__store_entity(p) ==
  LET entity == p.scoped_entity
      class_name == entity.class_name
      is_func_group == class_name.hash = PTM_CREATE_HASH["func_group"]
      is_worldspawn == class_name.hash = PTM_CREATE_HASH["worldspawn"]
      is_world_entity == is_func_group \/ is_worldspawn
      classes == p.map.entity_classes
      found == {k \in 1..Len(classes) : classes[k].name.hash = class_name.hash}
      p1 == IF is_world_entity /\ entity.brushes # <<>>
              THEN [p EXCEPT !.map.world_brushes = <<entity.brushes[1]>> \o @]
            ELSE p
      p2 == IF is_worldspawn THEN [p1 EXCEPT !.map.world_properties = entity.properties]
            ELSE p1
      p3 == IF is_world_entity \/ found # {} THEN p2
            ELSE [p2 EXCEPT !.map.entity_classes =
                               <<[name |-> class_name, entities |-> <<>>]>> \o @,
                            !.head = @ + ptm__sizeof("ptm_entity_class")]
  IN  IF is_world_entity THEN p3
      ELSE LET k == IF found = {} THEN 1 ELSE CHOOSE k \in found : \A j \in found : k <= j
           IN  [p3 EXCEPT !.map.entity_classes[k].entities = <<entity>> \o @]

\* One pass of the line loop of ptm_load_source; `number` numbers the line
\* and names the entity, brush or face it starts.  The pushes of a pass only
\* move the arena's head forward, so that one of them fails its PTM_ASSERT
\* exactly when the head ends beyond the capacity.
ptm__lineBody(p, line, number, h) ==
  LET type == ptm__identify_line(line.start)
      fail == [p EXCEPT !.asserted = TRUE]
  IN  CASE type \in {"PTM_LINE_INVALID", "PTM_LINE_COMMENT"} -> p
        [] type = "PTM_LINE_SCOPE_START" ->
             IF p.scope = "PTM_SCOPE_BRUSH" THEN fail
             ELSE IF p.scope = "PTM_SCOPE_MAP"
               THEN [p EXCEPT !.scope = "PTM_SCOPE_ENTITY",
                              !.head = @ + ptm__sizeof("ptm_entity"),
                              !.scoped_entity =
                                 [class_name |-> ptm__stale_string(h, number),
                                  properties |-> <<>>, brushes |-> <<>>, line |-> number]]
             ELSE [p EXCEPT !.scope = "PTM_SCOPE_BRUSH",
                            !.head = @ + ptm__sizeof("ptm_brush"),
                            !.scoped_brush = [faces |-> <<>>, line |-> number]]
        [] type = "PTM_LINE_SCOPE_END" ->
             IF p.scope = "PTM_SCOPE_MAP" THEN fail
             ELSE IF p.scope = "PTM_SCOPE_ENTITY"
               THEN IF p.scoped_entity = NULL \/ p.scoped_entity.class_name.data = "NULL"
                      THEN fail
                    ELSE ptm__store_entity([p EXCEPT !.scope = "PTM_SCOPE_MAP"])
             ELSE IF p.scoped_entity = NULL \/ p.scoped_brush = NULL THEN fail
                  ELSE [p EXCEPT !.scope = "PTM_SCOPE_ENTITY",
                                 !.scoped_entity.brushes = <<p.scoped_brush>> \o @]
        [] type = "PTM_LINE_PROPERTY" ->
             IF p.scope # "PTM_SCOPE_ENTITY" \/ p.scoped_entity = NULL THEN fail
             ELSE IF SubSeq(Text(line.key), 1, 3) = <<95, 116, 98>> THEN p
             ELSE LET key   == ptm__consume_string(p.string_cache, line.key)
                      value == ptm__consume_string(key.cache, line.value)
                      p1    == [p EXCEPT !.head = @ + ptm__sizeof("ptm_property")
                                                    + key.bytes + value.bytes,
                                         !.string_cache = value.cache]
                  IN  IF key.content.hash = PTM_CREATE_HASH["classname"]
                        THEN [p1 EXCEPT !.scoped_entity.class_name = value.content]
                      ELSE [p1 EXCEPT !.scoped_entity.properties =
                                         <<[key |-> key.content, value |-> value.content]>> \o @]
        [] type = "PTM_LINE_BRUSH_FACE" ->
             IF p.scope # "PTM_SCOPE_BRUSH" \/ p.scoped_brush = NULL THEN fail
             ELSE LET texture_name == ptm__consume_string(p.string_cache, line.texture)
                  IN  [p EXCEPT !.head = @ + ptm__sizeof("ptm_brush_face") + texture_name.bytes,
                                !.string_cache = texture_name.cache,
                                !.scoped_brush.faces =
                                   <<[texture_name |-> texture_name.content,
                                      line |-> number]>> \o @]

ptm__line(p, line, number, h) ==
  LET q == ptm__lineBody(p, line, number, h)
  IN  IF q.asserted \/ q.head > q.capacity THEN [p EXCEPT !.asserted = TRUE] ELSE q

\* most lines of a source of ptm_load_source, and most comments and blank
\* lines among them
MaxPtmLines == 7

MaxIdleLines == 1

\* the lines a source is made of: a comment, a blank line, the braces, a
\* brush face, and properties
PtmLines ==
  {[start |-> "/"], [start |-> "\n"], [start |-> "{"], [start |-> "}"],
   [start |-> "(", texture |-> "__TB_empty"]}
  \cup {[start |-> "\"", key |-> "classname", value |-> v] :
          v \in {"worldspawn", "func_group", "liquid"}}
  \cup {[start |-> "\"", key |-> k, value |-> "0"] : k \in {"costarring", "_tb_id"}}

\* the characters of a line, its newline included (a face line is
\* ( -64 -64 -16 ) ( -64 -63 -16 ) ( -64 -64 -15 ) TEXTURE [ 0 -1 0 0 ] [ 0 0 -1 0 ] 0 1 1)
PtmLineLength(line) ==
  CASE line.start = "/"  -> 12
    [] line.start = "{"  -> 2
    [] line.start = "}"  -> 2
    [] line.start = "("  -> 81 + Len(Text(line.texture))
    [] line.start = "\"" -> Len(Text(line.key)) + Len(Text(line.value)) + 6
    [] OTHER             -> 1

\* ptm_load_source is entered with a source of source_length characters:
\* the arena is created and the map pushed
PtmInit ==
  /\ impl = "ptm"
  /\ heap \in {"zeroed", "filled"}
  /\ mesh = <<>>
  /\ pre = <<>>
  /\ applied = <<>>
  /\ results = <<>>
  /\ out = NoOutput
  /\ \E source_length \in {64, 4096} :
       model = [kind |-> "ptm", lines |-> <<>>, read |-> 0,
                source_length |-> source_length,
                capacity |-> source_length * 2, head |-> ptm__sizeof("ptm_map"),
                map |-> [world_properties |-> <<>>, world_brushes |-> <<>>,
                         entity_classes |-> <<>>],
                string_cache |-> <<>>, scoped_entity |-> NULL, scoped_brush |-> NULL,
                scope |-> "PTM_SCOPE_MAP", asserted |-> FALSE, returned |-> FALSE]

\* the line loop reads the next line of the source
ptm_load_sourceLine(line) ==
  /\ model.kind = "ptm" /\ ~model.asserted /\ ~model.returned
  /\ Len(model.lines) < MaxPtmLines
  /\ line.start \in {"/", "\n"} =>
       Cardinality({i \in 1..Len(model.lines) : model.lines[i].start \in {"/", "\n"}})
         < MaxIdleLines
  /\ model.read + PtmLineLength(line) <= model.source_length
  /\ model' = [ptm__line(model, line, Len(model.lines) + 1, heap)
                 EXCEPT !.lines = Append(model.lines, line),
                        !.read = model.read + PtmLineLength(line)]
  /\ UNCHANGED <<impl, heap, mesh, pre, applied, results, out>>

\* The rest of the source, if any, is one more comment; the loop's last pass
\* sees the terminator and the map is returned.
ptm_load_source ==
  /\ model.kind = "ptm" /\ ~model.asserted /\ ~model.returned
  /\ model' = [model EXCEPT !.returned = TRUE]
  /\ UNCHANGED <<impl, heap, mesh, pre, applied, results, out>>

PtmNext ==
  \/ \E line \in PtmLines : ptm_load_sourceLine(line)
  \/ ptm_load_source

PtmSpec == PtmInit /\ [][PtmNext]_vars

(***************************************************************************)
(* C34: the scopes of ptm_load_source                                      *)
(***************************************************************************)
\* C34: while ptm_load_source parses, the scope changes only by an opening
\* brace in MAP scope (to ENTITY), an opening brace in ENTITY scope (to
\* BRUSH), a closing brace in BRUSH scope (to ENTITY) and a closing brace in
\* ENTITY scope (to MAP); an opening brace in BRUSH scope, a closing brace
\* in MAP scope, a property line outside ENTITY scope and a brush-face line
\* outside BRUSH scope fail an assertion; comment and unrecognised lines
\* change neither the scope nor the map.
C34_ScopeSteps ==
  [][(model.kind = "ptm" /\ Len(model'.lines) = Len(model.lines) + 1) =>
       LET start == model'.lines[Len(model'.lines)].start
           from  == model.scope
           to    == model'.scope
       IN  /\ to # from =>
                \/ start = "{" /\ from = "PTM_SCOPE_MAP" /\ to = "PTM_SCOPE_ENTITY"
                \/ start = "{" /\ from = "PTM_SCOPE_ENTITY" /\ to = "PTM_SCOPE_BRUSH"
                \/ start = "}" /\ from = "PTM_SCOPE_BRUSH" /\ to = "PTM_SCOPE_ENTITY"
                \/ start = "}" /\ from = "PTM_SCOPE_ENTITY" /\ to = "PTM_SCOPE_MAP"
           /\ ( \/ start = "{" /\ from = "PTM_SCOPE_BRUSH"
                \/ start = "}" /\ from = "PTM_SCOPE_MAP"
                \/ start = "\"" /\ from # "PTM_SCOPE_ENTITY"
                \/ start = "(" /\ from # "PTM_SCOPE_BRUSH" ) => model'.asserted
           /\ start \in {"/", "\n"} =>
                to = from /\ model'.map = model.map /\ ~model'.asserted]_vars

\* a source with a comment, an entity and a brush with a face was parsed to
\* its end, through all four scope steps
C34_Witness ==
  /\ model.kind = "ptm" /\ model.returned /\ model.scope = "PTM_SCOPE_MAP"
  /\ \E i \in 1..Len(model.lines) : model.lines[i].start = "/"
  /\ \E i \in 1..Len(model.lines) : model.lines[i].start = "("
  /\ Len(model.map.world_brushes) = 1

(***************************************************************************)
(* C35: the world brushes                                                  *)
(***************************************************************************)
\* the entity blocks of a source, in order: the value of the classname
\* property and the numbers of the lines that open its brush blocks
RECURSIVE PtmBlocks(_, _, _, _)
PtmBlocks(lines, first, depth, blocks) ==
  IF first > Len(lines) THEN blocks
  ELSE LET line == lines[first]
           n    == Len(blocks)
       IN  CASE line.start = "{" /\ depth = 0 ->
                  PtmBlocks(lines, first + 1, 1,
                            Append(blocks, [class_name |-> "", brushes |-> {}]))
             [] line.start = "{" /\ depth = 1 ->
                  PtmBlocks(lines, first + 1, 2,
                            [blocks EXCEPT ![n].brushes = @ \cup {first}])
             [] line.start = "}" /\ depth > 0 ->
                  PtmBlocks(lines, first + 1, depth - 1, blocks)
             [] line.start = "\"" /\ depth = 1 ->
                  PtmBlocks(lines, first + 1, depth,
                            IF line.key = "classname"
                              THEN [blocks EXCEPT ![n].class_name = line.value]
                            ELSE blocks)
             [] OTHER -> PtmBlocks(lines, first + 1, depth, blocks)

\* C35: after ptm_load_source the world brush list holds every brush of
\* every entity whose classname is worldspawn or func_group, each exactly
\* once, and no brush of any other entity.
C35_WorldBrushes ==
  (model.kind = "ptm" /\ model.returned /\ model.scope = "PTM_SCOPE_MAP") =>
    LET blocks == PtmBlocks(model.lines, 1, 0, <<>>)
        world  == UNION {blocks[e].brushes :
                           e \in {e \in 1..Len(blocks) :
                                    blocks[e].class_name \in {"worldspawn", "func_group"}}}
        listed == model.map.world_brushes
    IN  /\ {listed[k].line : k \in 1..Len(listed)} = world
        /\ Len(listed) = Cardinality(world)

(***************************************************************************)
(* C36: Euler's relation                                                   *)
(***************************************************************************)
\* C36: after every clip call that leaves at least one visible vertex, the
\* numbers V, E and F of visible vertices, edges and faces satisfy
\* V - E + F = 2.
C36_Euler ==
  (impl \in {"ptc", "poe"} /\ applied # <<>> /\ VisibleVertices(mesh) # {}) =>
    Cardinality(VisibleVertices(mesh)) - Cardinality(VisibleEdges(mesh))
      + Cardinality(VisibleFaces(mesh)) = 2

(***************************************************************************)
(* C37: degenerate edges and duplicate vertices                            *)
(***************************************************************************)
\* C37: after any clip call no visible edge joins two vertices with
\* identical positions and no two distinct visible vertices have identical
\* positions, also when the plane passes through vertices of the solid.
C37_NoDuplicatePositions ==
  (impl = "ptc" /\ applied # <<>>) =>
    /\ \A e \in VisibleEdges(mesh) :
         LET vs == mesh.edges[e + 1].vertices
         IN  (vs[1] < Len(mesh.vertices) /\ vs[2] < Len(mesh.vertices)) =>
               mesh.vertices[vs[1] + 1].position # mesh.vertices[vs[2] + 1].position
    /\ \A v, w \in VisibleVertices(mesh) :
         v # w => mesh.vertices[v + 1].position # mesh.vertices[w + 1].position

(***************************************************************************)
(* the edge-ordering loop of tb_model_create on a brush that keeps no      *)
(* vertex                                                                  *)
(***************************************************************************)
\* an entity of the brushes of ModelBrushes and the half-space
\* x <= -1000000, which holds no vertex of the seed cube, on a heap that
\* malloc does not clear
EmptyInit ==
  /\ impl \in {"tb", "ptc"}
  /\ heap \in {"filled", "mixed"}
  /\ applied = <<>>
  /\ mesh = (IF impl = "ptc" THEN PtcMesh(64)
             ELSE get_geometry_from_bounds(
                    Vec3(0, 0, 0), Vec3(WORLD_SIZE_tb, WORLD_SIZE_tb, WORLD_SIZE_tb)))
  /\ pre = mesh
  /\ results = <<>>
  /\ out = NoOutput
  /\ model \in (IF impl = "ptc" THEN {NoModel}
                ELSE {[kind |-> "tb", entity |-> entity,
                       g |-> [b \in 1..Len(entity) |->
                                tb_geometry_createBody(mesh, entity[b], 1)],
                       cursor |-> 0, meshes |-> <<>>, hung |-> FALSE,
                       last |-> <<0, 0>>, pass |-> [hung |-> FALSE],
                       done |-> FALSE, tb_meshes |-> <<>>] :
                      entity \in UNION {[1..n -> ModelBrushes \cup {<<7>>}] :
                                         n \in 0..MaxBrushes}})

EmptySpec == EmptyInit /\ [][ModelNext]_vars

\* C38: tb_model_create ends for every entity: no pass of the inner loop
\* over unsorted_edge_indices ends without removing an edge, so that the
\* while loop is left after as many passes as the face has edges but one,
\* and the final mesh list is built
C38_LoopTerminates ==
  model.kind = "tb" => ~model.hung

(***************************************************************************)
(* C39: ptb_free_map                                                       *)
(***************************************************************************)
\* C39: after ptb_free_map every chunk record and every chunk data block of
\* the map's arena has been freed exactly once, and no chunk record was read
\* after it was freed, however many chunks the arena has
C39_ArenaReleasedOnce ==
  (model.kind = "ptb" /\ model.freed # NULL)
    => /\ \A k \in DOMAIN model.freed.data_freed : model.freed.data_freed[k] = 1
       /\ \A k \in DOMAIN model.freed.chunk_freed : model.freed.chunk_freed[k] = 1
       /\ model.freed.read_freed = {}

(***************************************************************************)
(* C40: the strings of ptm__consume_string                                 *)
(***************************************************************************)
\* C40: the strings that a property line stores are the texts between its
\* quotes, whatever was parsed before: the key and the value of the property
\* it adds, or the class name it sets, have the characters of the line; and
\* the cache holds no text twice, so that equal texts share one interned
\* string and different texts never do
C40_InternedText ==
  [][(/\ model.kind = "ptm"
      /\ Len(model'.lines) = Len(model.lines) + 1
      /\ model'.lines[Len(model'.lines)].start = "\""
      /\ ~model'.asserted
      /\ model'.scoped_entity # model.scoped_entity) =>
       LET line == model'.lines[Len(model'.lines)]
           was  == model.scoped_entity
           now  == model'.scoped_entity
           cache == model'.string_cache
       IN  /\ IF Len(now.properties) = Len(was.properties) + 1
                THEN /\ now.properties[1].key.data = line.key
                     /\ now.properties[1].value.data = line.value
              ELSE /\ line.key = "classname"
                   /\ now.class_name.data = line.value
           /\ \A k, j \in 1..Len(cache) : cache[k].data = cache[j].data => k = j]_vars

====
